---- MODULE Spec2Model ----
(***************************************************************************)
(* Model of the normalization and persistence engine of the supermarket    *)
(* scraper: DatabaseManager (src/database.py) and BaseScraper.run          *)
(* (src/base_scraper.py).                                                  *)
(*                                                                         *)
(* The MySQL store is modelled by its committed tables plus the view of    *)
(* the one open transaction of the shared connection (autocommit=False):   *)
(* commit() publishes the view, rollback() and a lost connection discard   *)
(* it.  Timestamps are integers (NOW() reads the clock `now`), money is    *)
(* in cents, text that the code inspects character by character is a       *)
(* sequence of one-character strings.                                      *)
(***************************************************************************)
EXTENDS Integers, Sequences, FiniteSets, TLC

(***************************************************************************)
(* Bounds of the model.                                                    *)
(***************************************************************************)
MaxSessions == 2      \* scraping_sessions rows created in one behaviour
MaxTime == 3          \* last value of the clock
MaxCount == 1         \* largest products_count handed to end() by an API caller
MaxBatch == 3         \* longest list handed to save_products_batch
MaxCalls == 2         \* save calls made in one behaviour
MaxRuns == 1          \* scraper runs made in one behaviour
batch_size == 2       \* chunk length; stands for the 500 of save_products_batch

(***************************************************************************)
(* Null values.  NULL is SQL NULL / Python None in a numeric or timestamp  *)
(* column (ids and timestamps start at 1); None is Python None in a text   *)
(* column.                                                                 *)
(***************************************************************************)
NULL == 0
None == "None"

VARIABLES
    connected,          \* self.connection is open and the server answers
    now,                \* the store's clock, what NOW() returns
    scraping_sessions,  \* committed rows of scraping_sessions, id = index
    categories,         \* committed rows of categories, id = index
    products,           \* committed rows of products, id = index
    price_history,      \* committed rows of price_history
    tx,                 \* the tables as the connection's open transaction sees them
    pc,                 \* where the caller stands: "idle", or inside a handler
    batch,              \* save_products_batch: its argument `products`
    offset,             \* save_products_batch: the loop variable i
    saved_count,        \* save_products_batch: saved_count
    last_call,          \* the last finished API call and what it returned
    chunk_log,          \* history: one entry per chunk attempted by the current call
    latest,             \* history: per product key, the Product persisted last
    persisted,          \* history: number of items persisted so far
    calls,              \* history: number of save calls and runs made so far
    connects,           \* history: connect() calls made by the current save_products_batch
    run,                \* BaseScraper.run: its locals, and the history of its end() calls
    evaluated           \* the last call of a pure function: its arguments and result

storeVars == <<categories, products, price_history, tx>>
batchVars == <<batch, offset, saved_count, chunk_log>>
histVars == <<latest, persisted, calls, connects>>

(***************************************************************************)
(* supermarkets table.  ensure_supermarket is run by the orchestration     *)
(* scripts before any scraper; the table is fixed here.  Codes are stored  *)
(* upper-cased (ensure_supermarket, code_norm).                            *)
(***************************************************************************)
supermarkets == <<[code |-> "AH"], [code |-> "DIRK"]>>

\* The supermarket codes callers hand in: registered, a lower-case variant
\* of a registered one, and one that is not registered.
Codes == {"AH", "ah", "DIRK", "zz"}

\* SQL LOWER() on the codes of the model.
LOWER(code) ==
    CASE code = "AH" -> "ah"
      [] code = "DIRK" -> "dirk"
      [] OTHER -> code

\* DatabaseManager._get_supermarket_id: case-insensitive lookup, None if absent.
_get_supermarket_id(supermarket_code) ==
    LET hits == {i \in 1..Len(supermarkets) :
                    LOWER(supermarkets[i].code) = LOWER(supermarket_code)}
    IN  IF hits = {} THEN NULL ELSE CHOOSE i \in hits : \A j \in hits : i <= j

SetMax(S) == CHOOSE x \in S : \A y \in S : y <= x

(***************************************************************************)
(* Session tracker.                                                        *)
(***************************************************************************)
\* The row start_scraping_session inserts: status 'running'; completed_at,
\* products_scraped and error_message are not in the column list.
new_session_row(supermarket_id) ==
    [supermarket_id |-> supermarket_id, started_at |-> now, status |-> "running",
     completed_at |-> NULL, products_scraped |-> NULL, error_message |-> None]

\* A faulty UPDATE that leaves completed_at alone; C3 must reject it.
end_session_row_unstamped(row, products_count, status, error_message) ==
    [row EXCEPT !.products_scraped = products_count, !.status = status,
                !.error_message = error_message]

\* The UPDATE of end_scraping_session applied to one row.
end_session_row(row, products_count, status, error_message) ==
    [row EXCEPT !.completed_at = now, !.products_scraped = products_count,
                !.status = status, !.error_message = error_message]

\* UPDATE scraping_sessions SET ... WHERE id = session_id
update_session(sessions, session_id, products_count, status, error_message) ==
    [i \in 1..Len(sessions) |->
        IF i = session_id
        THEN end_session_row(sessions[i], products_count, status, error_message)
        ELSE sessions[i]]

\* A faulty query without `status = 'completed'`; C4 must reject it.
get_last_scrape_date_any_status(supermarket_code) ==
    LET rows == IF supermarket_code # ""
                THEN {i \in 1..Len(scraping_sessions) :
                        /\ _get_supermarket_id(supermarket_code) # NULL
                        /\ scraping_sessions[i].supermarket_id
                               = _get_supermarket_id(supermarket_code)}
                ELSE 1..Len(scraping_sessions)
        times == {scraping_sessions[i].completed_at : i \in rows} \ {NULL}
    IN  IF ~connected THEN NULL
        ELSE IF times = {} THEN NULL ELSE SetMax(times)

\* DatabaseManager.get_last_scrape_date: MAX(completed_at) over the completed
\* sessions, filtered by supermarket when a (non-empty) code is given; None
\* when the query fails (except Error) or yields NULL.
get_last_scrape_date(supermarket_code) ==
    LET rows == IF supermarket_code # ""
                THEN {i \in 1..Len(scraping_sessions) :
                        /\ scraping_sessions[i].status = "completed"
                        /\ _get_supermarket_id(supermarket_code) # NULL
                        /\ scraping_sessions[i].supermarket_id
                               = _get_supermarket_id(supermarket_code)}
                ELSE {i \in 1..Len(scraping_sessions) :
                        scraping_sessions[i].status = "completed"}
        times == {scraping_sessions[i].completed_at : i \in rows} \ {NULL}
    IN  IF ~connected THEN NULL
        ELSE IF times = {} THEN NULL ELSE SetMax(times)

(***************************************************************************)
(* Text, as sequences of one-character strings.                            *)
(***************************************************************************)
UpperCase == <<"A", "B", "C", "D", "E", "F", "G", "H", "I", "J", "K", "L", "M",
               "N", "O", "P", "Q", "R", "S", "T", "U", "V", "W", "X", "Y", "Z">>
LowerCase == <<"a", "b", "c", "d", "e", "f", "g", "h", "i", "j", "k", "l", "m",
               "n", "o", "p", "q", "r", "s", "t", "u", "v", "w", "x", "y", "z">>
DigitChars == <<"0", "1", "2", "3", "4", "5", "6", "7", "8", "9">>

Occurs(c, chars) == \E k \in 1..Len(chars) : chars[k] = c
IndexOf(c, chars) == CHOOSE k \in 1..Len(chars) : chars[k] = c

IsDigit(c) == Occurs(c, DigitChars)
IsAlpha(c) == Occurs(c, UpperCase) \/ Occurs(c, LowerCase)
IsSpace(c) == c \in {" ", "\t", "\n"}
IsWord(c) == IsAlpha(c) \/ IsDigit(c) \/ c = "_"

\* Membership of a character in a regex character class.
InClass(c, class) ==
    CASE class = "\\d" -> IsDigit(c)
      [] class = "\\s" -> IsSpace(c)
      [] class = "\\w" -> IsWord(c)
      [] class = "[a-zA-Z]" -> IsAlpha(c)

\* str.lower()
lower(text) ==
    [k \in 1..Len(text) |->
        IF Occurs(text[k], UpperCase) THEN LowerCase[IndexOf(text[k], UpperCase)]
        ELSE text[k]]

\* str.strip()
strip(text) ==
    LET solid == {k \in 1..Len(text) : ~IsSpace(text[k])}
    IN  IF solid = {} THEN <<>>
        ELSE SubSeq(text, CHOOSE k \in solid : \A j \in solid : k <= j, SetMax(solid))

\* DatabaseManager._create_slug:
\* re.sub(r'[^\w\s-]', '', text.lower()).strip().replace(' ', '-')
_create_slug(text) ==
    LET kept == SelectSeq(lower(text), LAMBDA c : IsWord(c) \/ IsSpace(c) \/ c = "-")
        core == strip(kept)
    IN  [k \in 1..Len(core) |-> IF core[k] = " " THEN "-" ELSE core[k]]

(***************************************************************************)
(* Products (dataclass Product) and the rows of the store.                 *)
(***************************************************************************)
UnitType == {"kg", "liter", "piece", "meter", "gram", "ml"}

\* A faulty validation that does not look at the prices; C10 must reject it.
post_init_unchecked(p) == p.product_id # "" /\ p.name # <<>>

\* Product.__post_init__: the validation that lets a Product exist.
post_init_ok(p) ==
    /\ p.product_id # "" /\ p.name # <<>>
    /\ p.price > 0 /\ p.price_per_unit > 0

\* The parameter tuple of the product INSERT (product_data.append / params).
product_row(p, category_id, supermarket_id) ==
    [product_id |-> p.product_id, name |-> p.name, category_id |-> category_id,
     supermarket_id |-> supermarket_id, price |-> p.price,
     unit_amount |-> p.unit_amount, price_per_unit |-> p.price_per_unit,
     unit_type |-> p.unit_type, original_price |-> p.original_price,
     discount_type |-> p.discount_type,
     discount_start_date |-> p.discount_start_date,
     discount_end_date |-> p.discount_end_date,
     search_tags |-> p.search_tags, image_url |-> p.image_url,
     last_updated |-> now]

\* A faulty update list without `price = VALUES(price)`; C5 must reject it.
on_duplicate_key_keep_price(old, new) ==
    [old EXCEPT !.name = new.name, !.category_id = new.category_id,
                !.unit_amount = new.unit_amount,
                !.price_per_unit = new.price_per_unit, !.unit_type = new.unit_type,
                !.original_price = new.original_price,
                !.discount_type = new.discount_type,
                !.discount_start_date = new.discount_start_date,
                !.discount_end_date = new.discount_end_date,
                !.search_tags = new.search_tags, !.image_url = new.image_url,
                !.last_updated = now]

\* ON DUPLICATE KEY UPDATE col = VALUES(col), ..., last_updated = NOW()
on_duplicate_key_update(old, new) ==
    [old EXCEPT !.name = new.name, !.category_id = new.category_id,
                !.price = new.price, !.unit_amount = new.unit_amount,
                !.price_per_unit = new.price_per_unit, !.unit_type = new.unit_type,
                !.original_price = new.original_price,
                !.discount_type = new.discount_type,
                !.discount_start_date = new.discount_start_date,
                !.discount_end_date = new.discount_end_date,
                !.search_tags = new.search_tags, !.image_url = new.image_url,
                !.last_updated = now]

\* The rows of `tbl` that hold the natural key (product_id, supermarket_id).
\* A NULL supermarket_id never equals anything in SQL.
rows_with_key(tbl, product_id, supermarket_id) ==
    {k \in 1..Len(tbl) : /\ supermarket_id # NULL
                         /\ tbl[k].product_id = product_id
                         /\ tbl[k].supermarket_id = supermarket_id}

\* A faulty upsert in the manner of REPLACE INTO: the old row is deleted and
\* a new one inserted, under a new internal id.
upsert_product_replace(tbl, p, category_id, supermarket_id) ==
    Append(SelectSeq(tbl, LAMBDA row :
               ~(/\ supermarket_id # NULL
                 /\ row.product_id = p.product_id
                 /\ row.supermarket_id = supermarket_id)),
           product_row(p, category_id, supermarket_id))

\* INSERT INTO products (...) VALUES (...) ON DUPLICATE KEY UPDATE ...
upsert_product(tbl, p, category_id, supermarket_id) ==
    LET new == product_row(p, category_id, supermarket_id)
        dup == rows_with_key(tbl, p.product_id, supermarket_id)
    IN  IF dup = {} THEN Append(tbl, new)
        ELSE [k \in 1..Len(tbl) |->
                IF k \in dup THEN on_duplicate_key_update(tbl[k], new) ELSE tbl[k]]

\* DatabaseManager._save_price_history: one INSERT INTO price_history.
_save_price_history(tbl, product_db_id, p) ==
    Append(tbl, [product_id |-> product_db_id, price |-> p.price,
                 original_price |-> p.original_price,
                 price_per_unit |-> p.price_per_unit,
                 discount_type |-> p.discount_type])

(***************************************************************************)
(* The transaction of the shared connection.                               *)
(***************************************************************************)
committed ==
    [categories |-> categories, products |-> products,
     price_history |-> price_history]

\* A faulty except branch that does not roll back; C9 must reject it.
no_rollback(view) == view

\* self.connection.rollback(): the view falls back to the committed tables.
rollback(view) == committed

(***************************************************************************)
(* Category resolver.                                                      *)
(***************************************************************************)
\* SELECT id FROM categories WHERE slug = %s AND supermarket_id = %s; fetchone()
select_category(cats, slug, supermarket_id) ==
    LET hits == {k \in 1..Len(cats) : /\ supermarket_id # NULL
                                      /\ cats[k].slug = slug
                                      /\ cats[k].supermarket_id = supermarket_id}
    IN  IF hits = {} THEN NULL ELSE CHOOSE k \in hits : \A j \in hits : k <= j

\* The key of category_map for a product.
category_key(p) == <<p.category_name, p.supermarket_code>>

\* unique_categories of _batch_get_or_create_categories, a Python set.
unique_categories(chunk) == {category_key(chunk[k]) : k \in 1..Len(chunk)}

\* The orders a Python set of these pairs may be iterated in.
Orders(S) ==
    {o \in [1..Cardinality(S) -> S] : \A a, b \in 1..Cardinality(S) : o[a] = o[b] => a = b}

\* The parameter tuples (category_name, category_slug, supermarket_id) of the
\* bulk INSERT, for the pairs `miss`.
category_rows(miss) ==
    [k \in 1..Len(miss) |->
        [name |-> miss[k][1], slug |-> _create_slug(miss[k][1]),
         supermarket_id |-> _get_supermarket_id(miss[k][2])]]

\* categories_to_create: the pairs the first loop did not find, in its order.
categories_to_create(cats, order) ==
    category_rows(SelectSeq(order, LAMBDA pr :
                     select_category(cats, _create_slug(pr[1]),
                                     _get_supermarket_id(pr[2])) = NULL))

\* The inner loop with break: the first pair of unique_categories that has
\* the name and the supermarket of a created row.
first_pair(order, row) ==
    order[CHOOSE k \in 1..Len(order) :
            /\ order[k][1] = row.name
            /\ _get_supermarket_id(order[k][2]) = row.supermarket_id
            /\ \A j \in 1..(k - 1) :
                  ~(/\ order[j][1] = row.name
                    /\ _get_supermarket_id(order[j][2]) = row.supermarket_id)]

\* The ids the re-query loop stores under the pair pr.
requeried(after, order, created, pr) ==
    {select_category(after, created[j].slug, created[j].supermarket_id) :
        j \in {i \in 1..Len(created) :
                  /\ select_category(after, created[i].slug,
                                     created[i].supermarket_id) # NULL
                  /\ first_pair(order, created[i]) = pr}}

\* category_map.get(pr): the id found by the first loop, else the id stored
\* by the re-query loop, else None.
category_map_entry(found, given) ==
    IF found # NULL THEN found
    ELSE IF given # {} THEN SetMax(given)
    ELSE NULL

\* The table after the bulk INSERT of `created`, and category_map.
categories_created(cats, order, created) ==
    [categories |-> cats \o created,
     category_map |->
        [pr \in {order[k] : k \in 1..Len(order)} |->
            category_map_entry(
                select_category(cats, _create_slug(pr[1]),
                                _get_supermarket_id(pr[2])),
                requeried(cats \o created, order, created, pr))]]

\* _batch_get_or_create_categories: the table after the bulk INSERT and the
\* category_map (NULL where the map has no entry).
_batch_get_or_create_categories(cats, order) ==
    categories_created(cats, order, categories_to_create(cats, order))

\* A faulty resolver that INSERTs although the SELECT found the row; C18 must
\* reject it.
category_got_always_insert(cats, category_name, slug, sid, hit) ==
    [categories |-> Append(cats, [name |-> category_name, slug |-> slug,
                                   supermarket_id |-> sid]),
     category_id |-> Len(cats) + 1]

\* _get_or_create_category once the SELECT gave `hit`: its id, else INSERT and
\* lastrowid.
category_got(cats, category_name, slug, sid, hit) ==
    IF hit # NULL THEN [categories |-> cats, category_id |-> hit]
    ELSE [categories |-> Append(cats, [name |-> category_name, slug |-> slug,
                                       supermarket_id |-> sid]),
          category_id |-> Len(cats) + 1]

\* The SELECT of _get_or_create_category.
category_select(cats, category_name, slug, sid) ==
    category_got(cats, category_name, slug, sid, select_category(cats, slug, sid))

\* DatabaseManager._get_or_create_category: SELECT, else INSERT and lastrowid.
_get_or_create_category(cats, category_name, supermarket_code) ==
    category_select(cats, category_name, _create_slug(category_name),
                    _get_supermarket_id(supermarket_code))

\* The unique key of categories, (slug, supermarket): a bulk INSERT that breaks
\* it raises IntegrityError.  NULLs never collide in a unique index.
categories_unique(cats) ==
    \A a, b \in 1..Len(cats) :
        (/\ cats[a].supermarket_id # NULL
         /\ cats[a].slug = cats[b].slug
         /\ cats[a].supermarket_id = cats[b].supermarket_id) => a = b

(***************************************************************************)
(* PriceCalculator.  Prices are in cents; a quantity is num / den.         *)
(***************************************************************************)
\* UNIT_CONVERSIONS: token -> (base unit, factor)
UNIT_CONVERSIONS ==
    {[token |-> <<"g">>, base |-> "gram", factor |-> 1],
     [token |-> <<"g", "r", "a", "m">>, base |-> "gram", factor |-> 1],
     [token |-> <<"k", "g">>, base |-> "gram", factor |-> 1000],
     [token |-> <<"k", "i", "l", "o", "g", "r", "a", "m">>, base |-> "gram",
      factor |-> 1000],
     [token |-> <<"m", "l">>, base |-> "ml", factor |-> 1],
     [token |-> <<"l">>, base |-> "ml", factor |-> 1000],
     [token |-> <<"l", "i", "t", "e", "r">>, base |-> "ml", factor |-> 1000],
     [token |-> <<"l", "i", "t", "r", "e">>, base |-> "ml", factor |-> 1000],
     [token |-> <<"s", "t">>, base |-> "piece", factor |-> 1],
     [token |-> <<"s", "t", "u", "k", "s">>, base |-> "piece", factor |-> 1],
     [token |-> <<"p", "i", "e", "c", "e", "s">>, base |-> "piece", factor |-> 1],
     [token |-> <<"p", "i", "e", "c", "e">>, base |-> "piece", factor |-> 1]}

\* The last index of the run of characters of a class that starts at i
\* (i - 1 when text[i] is not of the class).
SpanEnd(text, i, class) ==
    LET stops == {k \in i..Len(text) : ~InClass(text[k], class)}
    IN  IF stops = {} THEN Len(text)
        ELSE (CHOOSE k \in stops : \A j \in stops : k <= j) - 1

\* re.search(r'(\d+(?:\.\d+)?)\s*([a-zA-Z]+)', text) tried at position i,
\* piece by piece: the digits end at intEnd, the optional fraction at numEnd,
\* the white space at spEnd, the letters at unitEnd.
match_groups(text, i, intEnd, numEnd, spEnd, unitEnd) ==
    [ok |-> intEnd >= i /\ unitEnd > spEnd,
     digits |-> SelectSeq(SubSeq(text, i, numEnd), IsDigit),
     decimals |-> IF numEnd > intEnd THEN numEnd - (intEnd + 1) ELSE 0,
     unit |-> SubSeq(text, spEnd + 1, unitEnd)]

match_letters(text, i, intEnd, numEnd, spEnd) ==
    match_groups(text, i, intEnd, numEnd, spEnd, SpanEnd(text, spEnd + 1, "[a-zA-Z]"))

match_space(text, i, intEnd, numEnd) ==
    match_letters(text, i, intEnd, numEnd, SpanEnd(text, numEnd + 1, "\\s"))

\* (?:\.\d+)?
match_fraction(text, i, intEnd) ==
    match_space(text, i, intEnd,
                IF /\ intEnd + 2 <= Len(text)
                   /\ text[intEnd + 1] = "."
                   /\ IsDigit(text[intEnd + 2])
                THEN SpanEnd(text, intEnd + 2, "\\d")
                ELSE intEnd)

match_at(text, i) == match_fraction(text, i, SpanEnd(text, i, "\\d"))

RECURSIVE digits_value(_)
digits_value(ds) ==
    IF ds = <<>> THEN 0
    ELSE 10 * digits_value(SubSeq(ds, 1, Len(ds) - 1))
         + (IndexOf(ds[Len(ds)], DigitChars) - 1)

RECURSIVE pow10(_)
pow10(n) == IF n = 0 THEN 1 ELSE 10 * pow10(n - 1)

\* round(a / b) for b > 0, ties to even (Python's round on the exact quotient).
round_div(a, b) ==
    LET q == a \div b
        r == a % b
    IN  IF 2 * r < b THEN q
        ELSE IF 2 * r > b THEN q + 1
        ELSE IF q % 2 = 0 THEN q ELSE q + 1

\* `return round(price, 2), UnitType.PIECE`
piece_price(price) ==
    [raised |-> None, price_per_unit |-> price, unit_type |-> "piece"]

\* A conversion that reports the price per base unit (gram, ml).
price_per_base_unit_only(price, num, den, base_unit) ==
    IF num = 0
    THEN [raised |-> "ZeroDivisionError", price_per_unit |-> 0, unit_type |-> "piece"]
    ELSE [raised |-> None, price_per_unit |-> round_div(price * den, num),
          unit_type |-> IF base_unit = "gram" THEN "kg"
                        ELSE IF base_unit = "ml" THEN "liter" ELSE "piece"]

\* price / total_base_units, the conversion to the display unit and round():
\* the quantity is num / den base units.
price_per_display_unit(price, num, den, base_unit) ==
    IF num = 0
    THEN [raised |-> "ZeroDivisionError", price_per_unit |-> 0, unit_type |-> "piece"]
    ELSE IF base_unit = "gram"
    THEN [raised |-> None, unit_type |-> "kg",
          price_per_unit |-> round_div(price * den * 1000, num)]
    ELSE IF base_unit = "ml"
    THEN [raised |-> None, unit_type |-> "liter",
          price_per_unit |-> round_div(price * den * 1000, num)]
    ELSE [raised |-> None, unit_type |-> "piece",
          price_per_unit |-> round_div(price * den, num)]

\* cls.UNIT_CONVERSIONS[unit], for one of the entries `known` of that token
price_with_conversion(price, m, conv) ==
    price_per_display_unit(price, digits_value(m.digits) * conv.factor,
                           pow10(m.decimals), conv.base)

\* A lookup that raises for a token that is not in the table.
price_of_match_strict(price, m, known) ==
    IF known = {}
    THEN [raised |-> "KeyError", price_per_unit |-> 0, unit_type |-> "piece"]
    ELSE price_with_conversion(price, m, CHOOSE c \in known : TRUE)

\* `if unit not in cls.UNIT_CONVERSIONS`
price_of_match(price, m, known) ==
    IF known = {} THEN piece_price(price)
    ELSE price_with_conversion(price, m, CHOOSE c \in known : TRUE)

\* `if not match`; re.search takes the leftmost match.
price_of_search(price, text, starts) ==
    IF starts = {} THEN piece_price(price)
    ELSE price_of_match(price,
                        match_at(text, CHOOSE i \in starts : \A j \in starts : i <= j),
                        {c \in UNIT_CONVERSIONS :
                            c.token = match_at(text, CHOOSE i \in starts :
                                                   \A j \in starts : i <= j).unit})

\* PriceCalculator.calculate_price_per_unit(price, unit_amount).  Result:
\* raised (ZeroDivisionError on a zero quantity), price_per_unit, unit_type.
calculate_price_per_unit(price, unit_amount) ==
    price_of_search(price, lower(unit_amount),
                    {i \in 1..Len(unit_amount) : match_at(lower(unit_amount), i).ok})

\* re.findall(r'\w+', text): the maximal runs of word characters.
findall_words(text) ==
    {SubSeq(text, a, b) : <<a, b>> \in
        {ab \in (1..Len(text)) \X (1..Len(text)) :
            /\ ab[1] <= ab[2]
            /\ \A k \in ab[1]..ab[2] : IsWord(text[k])
            /\ (ab[1] = 1 \/ ~IsWord(text[ab[1] - 1]))
            /\ (ab[2] = Len(text) \/ ~IsWord(text[ab[2] + 1]))}}

stop_words ==
    {<<"d", "e">>, <<"h", "e", "t">>, <<"e", "e", "n">>, <<"v", "a", "n">>,
     <<"e", "n">>, <<"i", "n">>, <<"o", "p">>, <<"m", "e", "t">>,
     <<"v", "o", "o", "r">>, <<"t", "h", "e">>, <<"a", "n", "d">>, <<"o", "r">>,
     <<"o", "f">>}

\* A tag generator that keeps the stop words.
generate_search_tags_unfiltered(name, category, brand) ==
    {w \in findall_words(lower(name)) \cup findall_words(lower(category))
           \cup findall_words(lower(brand)) : Len(w) > 2}

\* PriceCalculator.generate_search_tags: the set of tags; the order in which
\* ', '.join renders a Python set is not determined.
generate_search_tags(name, category, brand) ==
    {w \in findall_words(lower(name)) \cup findall_words(lower(category))
           \cup findall_words(lower(brand)) :
        Len(w) > 2 /\ w \notin stop_words}

\* list(set(...)): the lists that ', '.join may be given for a set of tags,
\* one per iteration order, each tag once.
unique_tags(tags) ==
    {l \in [1..Cardinality(tags) -> tags] :
        \A a, b \in 1..Cardinality(tags) : l[a] = l[b] => a = b}

\* (\d{1,2})\s+ at position i: where the white space ends, 0 if no match.
date_number(text, i, d) ==
    IF /\ i + d <= Len(text)
       /\ \A k \in i..(i + d - 1) : IsDigit(text[k])
       /\ IsSpace(text[i + d])
    THEN SpanEnd(text, i + d, "\\s")
    ELSE 0

\* (\w+)\s+ after position e: where the white space ends, 0 if no match.
date_word(text, e, wordEnd) ==
    IF e > 0 /\ wordEnd > e /\ wordEnd < Len(text) /\ IsSpace(text[wordEnd + 1])
    THEN SpanEnd(text, wordEnd + 1, "\\s")
    ELSE 0

\* t/m\s+ after position e: where the white space ends, 0 if no match.
date_through(text, e) ==
    IF /\ e > 0 /\ e + 4 <= Len(text)
       /\ text[e + 1] = "t" /\ text[e + 2] = "/" /\ text[e + 3] = "m"
       /\ IsSpace(text[e + 4])
    THEN SpanEnd(text, e + 4, "\\s")
    ELSE 0

\* (\d{1,2})\s+(\w+)\s+t/m\s+ with a first number of d digits at position i
date_head(text, i, d) ==
    date_through(text, date_word(text, date_number(text, i, d),
                                 SpanEnd(text, date_number(text, i, d) + 1, "\\w")))

\* (\d{1,2})\s+(\w+) after position e, with a number of d digits
date_tail(text, e, d) ==
    /\ e > 0
    /\ date_number(text, e + 1, d) > 0
    /\ date_number(text, e + 1, d) < Len(text)
    /\ IsWord(text[date_number(text, e + 1, d) + 1])

\* re.search(r'(\d{1,2})\s+(\w+)\s+t/m\s+(\d{1,2})\s+(\w+)', discount_type)
date_match(text) ==
    \E i \in 1..Len(text), d \in 1..2, d2 \in 1..2 :
        date_tail(text, date_head(text, i, d), d2)

\* The discount dates of _create_product: the ones given, or today's date when
\* none is given and the discount text of a discounted item names a period.
discount_date(raw, given) ==
    IF /\ raw.discount_start_date = NULL /\ raw.discount_end_date = NULL
       /\ raw.discount_type # None /\ raw.original_price # NULL
       /\ date_match(raw.discount_type)
    THEN now
    ELSE given

\* A faulty constructor that validates nothing; C11 must reject it.
make_product_unvalidated(p) == [raised |-> None, product |-> p]

\* Product(...) of _create_product: __post_init__ raises ValueError or the
\* Product exists.
make_product(p) ==
    IF ~post_init_ok(p) THEN [raised |-> "ValueError", product |-> p]
    ELSE [raised |-> None, product |-> p]

\* _create_product after calculate_price_per_unit returned or raised.
product_of_unit(raw, supermarket_code, unit) ==
    IF unit.raised # None THEN [raised |-> unit.raised, product |-> raw]
    ELSE make_product(
            [product_id |-> raw.product_id, name |-> strip(raw.name),
             category_name |-> strip(raw.category), price |-> raw.price,
             unit_amount |-> raw.unit_amount,
             price_per_unit |-> unit.price_per_unit, unit_type |-> unit.unit_type,
             supermarket_code |-> supermarket_code,
             search_tags |-> generate_search_tags(raw.name, raw.category, raw.brand),
             original_price |-> raw.original_price,
             discount_type |-> raw.discount_type,
             discount_start_date |-> discount_date(raw, raw.discount_start_date),
             discount_end_date |-> discount_date(raw, raw.discount_end_date),
             image_url |-> raw.image_url])

\* BaseScraper._create_product(raw item) for the scraper of supermarket_code:
\* raised (ZeroDivisionError from the calculator, ValueError from
\* Product.__post_init__) or the Product.
_create_product(raw, supermarket_code) ==
    product_of_unit(raw, supermarket_code,
                    calculate_price_per_unit(raw.price, raw.unit_amount))

(***************************************************************************)
(* Persistence engine: one chunk.                                          *)
(***************************************************************************)
\* A faulty step 3 that gives the whole chunk up when one item cannot be
\* resolved; C17 must reject it.
product_data_all_or_nothing(chunk, category_map) ==
    IF \E k \in 1..Len(chunk) :
          \/ category_map[category_key(chunk[k])] = NULL
          \/ _get_supermarket_id(chunk[k].supermarket_code) = NULL
    THEN <<>>
    ELSE chunk

\* Step 3 of _save_products_batch_chunk: the items that are not skipped.
product_data(chunk, category_map) ==
    SelectSeq(chunk, LAMBDA p :
        /\ category_map[category_key(p)] # NULL
        /\ _get_supermarket_id(p.supermarket_code) # NULL)

\* cursor.executemany(query, product_data): the upserts, in order.
RECURSIVE executemany(_, _, _)
executemany(tbl, data, category_map) ==
    IF data = <<>> THEN tbl
    ELSE executemany(upsert_product(tbl, Head(data),
                                    category_map[category_key(Head(data))],
                                    _get_supermarket_id(Head(data).supermarket_code)),
                     Tail(data), category_map)

\* A faulty return value, len(products), that counts skipped items; C7 must
\* reject it.
chunk_return_all(data, chunk) == Len(chunk)

\* What a chunk that committed returns: len(product_data).
chunk_return(data, chunk) == Len(data)

\* Where a statement of the chunk may raise mysql.connector.Error: in the
\* category lookup (before any write), in the product executemany (after the
\* category INSERT), or in commit().
Faults == {"none", "resolve", "executemany", "commit"}

\* The except branch of a chunk or of save_product: rollback().
chunk_raised(view) ==
    [view |-> rollback(view), commit |-> FALSE, ret |-> 0, failed |-> TRUE,
     written |-> <<>>, error |-> "Error", category_map |-> <<>>]

\* Steps 3-5 of _save_products_batch_chunk: nothing to insert, or
\* executemany, commit() and `return len(product_data)`.
chunk_write(view1, chunk, fault, category_map, data) ==
    IF data = <<>>
    THEN [view |-> view1, commit |-> FALSE, ret |-> 0, failed |-> FALSE,
          written |-> <<>>, error |-> None, category_map |-> category_map]
    ELSE IF fault = "executemany" THEN chunk_raised(view1)
    ELSE IF fault = "commit"
    THEN chunk_raised([view1 EXCEPT !.products =
                          executemany(view1.products, data, category_map)])
    ELSE [view |-> [view1 EXCEPT !.products =
                       executemany(view1.products, data, category_map)],
          commit |-> TRUE, ret |-> chunk_return(data, chunk), failed |-> FALSE,
          written |-> data, error |-> None, category_map |-> category_map]

\* The chunk after _batch_get_or_create_categories: its bulk INSERT raises
\* when it breaks the unique key of categories.
chunk_resolved(view, chunk, fault, resolved) ==
    IF ~categories_unique(resolved.categories)
    THEN [chunk_raised([view EXCEPT !.categories = resolved.categories])
             EXCEPT !.error = "IntegrityError"]
    ELSE chunk_write([view EXCEPT !.categories = resolved.categories], chunk, fault,
                     resolved.category_map,
                     product_data(chunk, resolved.category_map))

\* _save_products_batch_chunk on a usable connection whose transaction sees
\* `view`.  Result: the view afterwards, whether commit() ran, the return
\* value, whether the except branch ran, the rows that were written, what
\* was raised, and the category_map the resolver returned (<<>> when the
\* chunk raised).
\* A category row without supermarket (unregistered source) is stored when no
\* statement faults; a schema that refuses it is the fault "resolve".
_save_products_batch_chunk(view, chunk, order, fault) ==
    IF fault = "resolve" THEN chunk_raised(view)
    ELSE chunk_resolved(view, chunk, fault,
                        _batch_get_or_create_categories(view.categories, order))

(***************************************************************************)
(* Inputs of the persistence engine.                                       *)
(***************************************************************************)
Text_A == <<"A">>
Text_a_bang == <<"a", "!">>
Text_B_c == <<"B", " ", "c">>
Text_Milk == <<"M", "i", "l", "k">>
Text_Cola == <<"C", "o", "l", "a">>
Text_1_st == <<"1", " ", "s", "t">>

MakeProduct(product_id, name, category_name, price, supermarket_code) ==
    [product_id |-> product_id, name |-> name, category_name |-> category_name,
     price |-> price, unit_amount |-> Text_1_st, price_per_unit |-> price,
     unit_type |-> "piece", supermarket_code |-> supermarket_code,
     search_tags |-> {lower(name)}, original_price |-> NULL,
     discount_type |-> None, discount_start_date |-> NULL,
     discount_end_date |-> NULL, image_url |-> None]

\* Two versions of one product (new name and price), a product of the same
\* supermarket written in lower case whose category has the same slug, a
\* product of an unregistered supermarket, and the same product_id sold by
\* another supermarket.
ProductUniverse ==
    {MakeProduct("p1", Text_Milk, Text_A, 100, "AH"),
     MakeProduct("p1", Text_Cola, Text_A, 120, "AH"),
     MakeProduct("p2", Text_Milk, Text_a_bang, 200, "ah"),
     MakeProduct("p3", Text_Milk, Text_B_c, 300, "zz"),
     MakeProduct("p1", Text_Milk, Text_B_c, 100, "DIRK")}

\* Lists of distinct products of at most n items.
Lists(S, n) ==
    UNION {{l \in [1..k -> S] : \A a, b \in 1..k : l[a] = l[b] => a = b} : k \in 0..n}

ProductKeys == {<<p.product_id, _get_supermarket_id(p.supermarket_code)>> :
                    p \in {q \in ProductUniverse :
                              _get_supermarket_id(q.supermarket_code) # NULL}}
NoProduct == [product_id |-> ""]

\* History: the Product persisted last under each key.
RECURSIVE record_latest(_, _)
record_latest(hist, data) ==
    IF data = <<>> THEN hist
    ELSE record_latest(
            [hist EXCEPT ![<<Head(data).product_id,
                             _get_supermarket_id(Head(data).supermarket_code)>>] = Head(data)],
            Tail(data))

(***************************************************************************)
(* Initial state: connected (DatabaseManager.__enter__), empty tables      *)
(* apart from supermarkets.                                                *)
(***************************************************************************)
NoCall == [op |-> "none", value |-> 0, raised |-> None]

\* product_limit: None, or an integer.
NoLimit == [given |-> FALSE, n |-> 0]

\* No pure function called yet.
NoEvaluation == [op |-> "none"]

\* No run in progress.
NoRun ==
    [active |-> FALSE, session_id |-> NULL, supermarket_code |-> None,
     product_limit |-> NoLimit, raw |-> <<>>, scrape_raised |-> FALSE,
     products_saved |-> 0, exc |-> None, ends |-> <<>>]

Init ==
    /\ connected = TRUE
    /\ now = 1
    /\ scraping_sessions = <<>>
    /\ categories = <<>>
    /\ products = <<>>
    /\ price_history = <<>>
    /\ tx = [categories |-> <<>>, products |-> <<>>, price_history |-> <<>>]
    /\ pc = "idle"
    /\ batch = <<>>
    /\ offset = 0
    /\ saved_count = 0
    /\ last_call = NoCall
    /\ chunk_log = <<>>
    /\ latest = [k \in ProductKeys |-> NoProduct]
    /\ persisted = 0
    /\ calls = 0
    /\ connects = 0
    /\ run = NoRun
    /\ evaluated = NoEvaluation

(***************************************************************************)
(* The connection.                                                         *)
(***************************************************************************)
\* DatabaseManager._ensure_connection: True when the connection is alive,
\* else the result of one connect(); `up` says whether the server answers.
_ensure_connection(up) == connected \/ up

\* A faulty reconnect that tries connect() a second time when the first one
\* fails; C14 must reject it.
connect_attempts_retried(up) == IF connected THEN 0 ELSE IF up THEN 1 ELSE 2

\* The number of connect() calls _ensure_connection makes: none on a live
\* connection, else the one of its last line.
connect_attempts(up) == IF connected THEN 0 ELSE 1

\* What the connection sees once _ensure_connection returned True: a fresh
\* connection starts from the committed tables.
view_after_ensure == IF connected THEN tx ELSE committed

\* self.connection.commit(): the view becomes the committed tables.
Commit(view) ==
    /\ categories' = view.categories
    /\ products' = view.products
    /\ price_history' = view.price_history
    /\ tx' = view

\* The server goes away or the connection times out: what was not committed
\* is rolled back by the server.
DropConnection ==
    /\ connected
    /\ connected' = FALSE
    /\ tx' = committed
    /\ UNCHANGED <<now, scraping_sessions, categories, products, price_history,
                   pc, last_call, batchVars, histVars, run>>
    /\ UNCHANGED evaluated

\* Time passes, between calls and while a scraper fetches.
Tick ==
    /\ pc \in {"idle", "run_scrape"}
    /\ now < MaxTime
    /\ now' = now + 1
    /\ UNCHANGED <<connected, scraping_sessions, storeVars, pc, last_call,
                   batchVars, histVars, run>>
    /\ UNCHANGED evaluated

(***************************************************************************)
(* save_products_batch, one step per chunk of the loop.                    *)
(***************************************************************************)
Min(a, b) == IF a <= b THEN a ELSE b

\* products[i:i + batch_size]
chunk_at(list, i) == SubSeq(list, i + 1, Min(i + batch_size, Len(list)))

\* save_products_batch up to the loop: empty input and a dead connection
\* return 0 at once (pc "saved"), else the loop starts (pc "saving").
save_products_batch_begin(list, up) ==
    /\ batch' = list
    /\ offset' = 0
    /\ saved_count' = 0
    /\ chunk_log' = <<>>
    /\ connects' = IF list = <<>> THEN 0 ELSE connect_attempts(up)
    /\ IF list = <<>> \/ ~_ensure_connection(up)
       THEN /\ pc' = "saved"
            /\ UNCHANGED <<connected, tx>>
       ELSE /\ pc' = "saving"
            /\ connected' = TRUE
            /\ tx' = view_after_ensure
    /\ UNCHANGED <<categories, products, price_history>>

SaveBatchCall(list, up) ==
    /\ pc = "idle"
    /\ calls < MaxCalls
    /\ connected => up
    /\ calls' = calls + 1
    /\ save_products_batch_begin(list, up)
    /\ UNCHANGED <<now, scraping_sessions, last_call, latest, persisted, run>>
    /\ UNCHANGED evaluated

\* A faulty loop that submits a failed chunk again; C15 must reject it.
next_offset_resubmit(failed, i) == IF failed THEN i ELSE i + batch_size

\* `for i in range(0, len(products), batch_size)`: the next slice, whatever
\* became of this one.
next_offset(failed, i) == i + batch_size

\* A faulty loop that gives up at the first chunk that fails; C8 must reject it.
loop_abort(failed, i, n) ==
    IF failed \/ i + batch_size >= n THEN "saved" ELSE "saving"

\* `for i in range(0, len(products), batch_size)` with `continue` in the
\* except branch: whether the chunk failed or not, the loop goes on to the
\* next chunk and ends after the last one.
loop_next(failed, i, n) == IF i + batch_size >= n THEN "saved" ELSE "saving"

\* The result of a chunk called on a connection that cannot be re-opened.
chunk_unavailable ==
    [view |-> tx, commit |-> FALSE, ret |-> 0, failed |-> TRUE, written |-> <<>>,
     error |-> "unavailable", category_map |-> <<>>]

\* What one iteration does with the result r of its chunk.
chunk_effect(r) ==
    /\ IF r.commit THEN Commit(r.view)
       ELSE /\ tx' = r.view
            /\ UNCHANGED <<categories, products, price_history>>
    /\ saved_count' = saved_count + r.ret
    /\ chunk_log' = Append(chunk_log, [failed |-> r.failed, rows |-> Len(r.written),
                                       error |-> r.error,
                                       category_map |-> r.category_map,
                                       i |-> offset])
    /\ latest' = record_latest(latest, r.written)
    /\ persisted' = persisted + Len(r.written)

\* One iteration of the loop of save_products_batch: _save_products_batch_chunk
\* on products[i:i + batch_size] and the count added.  Only
\* mysql.connector.Error is raised inside the chunk (every Product carries a
\* UnitType member), so the chunk handles its own failure.
SaveChunk(up, order, fault) ==
    /\ pc = "saving"
    /\ connected => up
    /\ order \in Orders(unique_categories(chunk_at(batch, offset)))
    /\ ~_ensure_connection(up) => fault = "none"
    /\ connected' = _ensure_connection(up)
    /\ chunk_effect(IF _ensure_connection(up)
                    THEN _save_products_batch_chunk(view_after_ensure,
                                                    chunk_at(batch, offset),
                                                    order, fault)
                    ELSE chunk_unavailable)
    /\ offset' = next_offset(chunk_log'[Len(chunk_log')].failed, offset)
    /\ connects' = connects + connect_attempts(up)
    /\ pc' = loop_next(chunk_log'[Len(chunk_log')].failed, offset, Len(batch))
    /\ UNCHANGED <<now, scraping_sessions, batch, last_call, calls, run>>
    /\ UNCHANGED evaluated

\* `return saved_count`: to the API caller, or to BaseScraper.run, which
\* keeps it in products_saved.
SaveBatchReturn ==
    /\ pc = "saved"
    /\ IF run.active
       THEN /\ pc' = "run_end"
            /\ run' = [run EXCEPT !.products_saved = saved_count]
            /\ UNCHANGED last_call
       ELSE /\ pc' = "returned"
            /\ last_call' = [op |-> "save_products_batch", value |-> saved_count,
                             raised |-> None]
            /\ UNCHANGED run
    /\ UNCHANGED <<connected, now, scraping_sessions, storeVars, batchVars, histVars>>
    /\ UNCHANGED evaluated

(***************************************************************************)
(* save_product.                                                           *)
(***************************************************************************)
\* The except branch of save_product: rollback() and False.
save_raised(view) == [view |-> rollback(view), commit |-> FALSE, ret |-> FALSE]

\* save_product after the upsert: the price-history row for
\* cursor.lastrowid or _get_product_db_id(product), then commit().
save_history(view2, p, fault, db_id) ==
    IF fault = "commit"
    THEN save_raised([view2 EXCEPT !.price_history =
                         _save_price_history(view2.price_history, db_id, p)])
    ELSE [view |-> [view2 EXCEPT !.price_history =
                       _save_price_history(view2.price_history, db_id, p)],
          commit |-> TRUE, ret |-> TRUE]

\* save_product after the category: the upsert of the product row.
save_upsert(view1, p, fault, category_id, sid, dup) ==
    IF fault = "executemany" THEN save_raised(view1)
    ELSE save_history([view1 EXCEPT !.products =
                          upsert_product(view1.products, p, category_id, sid)],
                      p, fault,
                      IF dup = {} THEN Len(view1.products) + 1 ELSE SetMax(dup))

save_category(view, p, fault, got, sid) ==
    save_upsert([view EXCEPT !.categories = got.categories], p, fault,
                got.category_id, sid, rows_with_key(view.products, p.product_id, sid))

\* save_product on a usable connection whose transaction sees `view`: the
\* category, the upsert, the price-history row, commit(); on Error rollback()
\* and False.  A row of an unregistered supermarket (supermarket_id NULL) is
\* stored when no statement faults; a schema that refuses it is the fault
\* "executemany".
save_product(view, p, fault) ==
    IF fault = "resolve" THEN save_raised(view)
    ELSE save_category(view, p, fault,
                       _get_or_create_category(view.categories, p.category_name,
                                               p.supermarket_code),
                       _get_supermarket_id(p.supermarket_code))

\* The result of save_product on a connection that cannot be re-opened.
save_unavailable == [view |-> tx, commit |-> FALSE, ret |-> FALSE]

\* What the caller of save_product sees and what the store keeps.
save_effect(p, r) ==
    /\ IF r.commit THEN Commit(r.view)
       ELSE /\ tx' = r.view
            /\ UNCHANGED <<categories, products, price_history>>
    /\ last_call' = [op |-> "save_product", value |-> r.ret, raised |-> None]
    /\ latest' = IF r.commit /\ _get_supermarket_id(p.supermarket_code) # NULL
                 THEN record_latest(latest, <<p>>) ELSE latest
    /\ persisted' = IF r.commit THEN persisted + 1 ELSE persisted

SaveProduct(p, up, fault) ==
    /\ pc = "idle"
    /\ calls < MaxCalls
    /\ connected => up
    /\ calls' = calls + 1
    /\ ~_ensure_connection(up) => fault = "none"
    /\ connected' = _ensure_connection(up)
    /\ save_effect(p, IF _ensure_connection(up)
                      THEN save_product(view_after_ensure, p, fault)
                      ELSE save_unavailable)
    /\ pc' = "returned"
    /\ UNCHANGED <<now, scraping_sessions, batchVars, connects, run>>
    /\ UNCHANGED evaluated

\* The caller takes the result; the locals of the finished call are gone.
Return ==
    /\ pc = "returned"
    /\ pc' = "idle"
    /\ last_call' = NoCall
    /\ batch' = <<>>
    /\ offset' = 0
    /\ saved_count' = 0
    /\ chunk_log' = <<>>
    /\ run' = NoRun
    /\ connects' = 0
    /\ UNCHANGED <<connected, now, scraping_sessions, storeVars, latest, persisted,
                   calls>>
    /\ UNCHANGED evaluated

(***************************************************************************)
(* Session tracker: the calls.                                             *)
(***************************************************************************)
Statuses == {"completed", "failed"}     \* what callers pass as status

\* A faulty start that does not look the supermarket up before the INSERT;
\* C16 must reject it.
start_scraping_session_unchecked(supermarket_code) ==
    IF ~connected
    THEN [raised |-> "Error", session_id |-> NULL, rows |-> scraping_sessions]
    ELSE [raised |-> None, session_id |-> Len(scraping_sessions) + 1,
          rows |-> Append(scraping_sessions,
                          new_session_row(_get_supermarket_id(supermarket_code)))]

\* start_scraping_session.  It does not call _ensure_connection: on a dead
\* connection the first cursor() raises Error.  An unknown supermarket raises
\* ValueError before the INSERT.  Result: what is raised, the id returned and
\* the table after the INSERT.
start_scraping_session(supermarket_code) ==
    LET supermarket_id == _get_supermarket_id(supermarket_code)
    IN  IF ~connected
        THEN [raised |-> "Error", session_id |-> NULL, rows |-> scraping_sessions]
        ELSE IF supermarket_id = NULL
        THEN [raised |-> "ValueError", session_id |-> NULL,
              rows |-> scraping_sessions]
        ELSE [raised |-> None, session_id |-> Len(scraping_sessions) + 1,
              rows |-> Append(scraping_sessions, new_session_row(supermarket_id))]

\* end_scraping_session.  With no usable connection after the one reconnect
\* attempt it logs and returns ("silent"); a statement that raises Error
\* leaves nothing applied ("raised"); otherwise UPDATE ... WHERE id and
\* commit() ("applied").
end_scraping_session(session_id, products_count, status, error_message, up, fault) ==
    IF ~_ensure_connection(up)
    THEN [outcome |-> "silent", rows |-> scraping_sessions]
    ELSE IF fault
    THEN [outcome |-> "raised", rows |-> scraping_sessions]
    ELSE [outcome |-> "applied",
          rows |-> update_session(scraping_sessions, session_id, products_count,
                                  status, error_message)]

\* The effect of an end_scraping_session call on the store and the connection.
end_effect(r, up) ==
    /\ connected' = _ensure_connection(up)
    /\ scraping_sessions' = r.rows
    /\ IF r.outcome = "applied" THEN Commit(view_after_ensure)
       ELSE IF r.outcome = "raised"
       THEN /\ tx' = view_after_ensure
            /\ UNCHANGED <<categories, products, price_history>>
       ELSE UNCHANGED storeVars

\* The effect of a start_scraping_session call: commit() publishes the whole
\* open transaction.
start_effect(r) ==
    /\ scraping_sessions' = r.rows
    /\ IF r.raised = None THEN Commit(tx) ELSE UNCHANGED storeVars

StartSessionReturn(supermarket_code, r) ==
    /\ start_effect(r)
    /\ last_call' = [op |-> "start_scraping_session", value |-> r.session_id,
                     raised |-> r.raised, supermarket_code |-> supermarket_code]

StartSession(supermarket_code) ==
    /\ pc = "idle"
    /\ Len(scraping_sessions) < MaxSessions
    /\ pc' = "returned"
    /\ StartSessionReturn(supermarket_code,
                          start_scraping_session(supermarket_code))
    /\ UNCHANGED <<connected, now, batchVars, histVars, run>>
    /\ UNCHANGED evaluated

EndSessionReturn(session_id, products_count, status, error_message, up, r) ==
    /\ end_effect(r, up)
    /\ last_call' = [op |-> "end_scraping_session",
                     value |-> IF r.outcome = "applied" THEN session_id ELSE NULL,
                     raised |-> IF r.outcome = "raised" THEN "Error" ELSE None,
                     session_id |-> session_id,
                     products_count |-> products_count, status |-> status,
                     error_message |-> error_message,
                     connects |-> connect_attempts(up)]

EndSession(session_id, products_count, status, error_message, up, fault) ==
    /\ pc = "idle"
    /\ session_id \in 1..Len(scraping_sessions)
    /\ connected => up
    /\ ~_ensure_connection(up) => ~fault
    /\ pc' = "returned"
    /\ EndSessionReturn(session_id, products_count, status, error_message, up,
                        end_scraping_session(session_id, products_count, status,
                                             error_message, up, fault))
    /\ UNCHANGED <<now, batchVars, histVars, run>>
    /\ UNCHANGED evaluated

\* str(e) of the exception a caller reports with status 'failed'.
message_of(status) == IF status = "failed" THEN "boom" ELSE None

(***************************************************************************)
(* BaseScraper.run.                                                        *)
(***************************************************************************)
\* Raw items as a scraper extracts them from a page.
MakeRaw(product_id, name, price, unit_amount) ==
    [product_id |-> product_id, name |-> name, category |-> Text_A,
     price |-> price, unit_amount |-> unit_amount, brand |-> <<>>,
     original_price |-> NULL, discount_type |-> None,
     discount_start_date |-> NULL, discount_end_date |-> NULL,
     image_url |-> None]

Text_500_g == <<"5", "0", "0", " ", "g">>
Text_0_g == <<"0", " ", "g">>
Text__Milk == <<" ", "M", "i", "l", "k">>

\* A weighed item, an item sold by the piece, an item without price, an item
\* with a negative price, and an item whose quantity is zero.
RawUniverse ==
    {MakeRaw("p1", Text__Milk, 100, Text_500_g),
     MakeRaw("p2", Text_Cola, 120, Text_1_st),
     MakeRaw("p3", Text_Milk, 0, Text_1_st),
     MakeRaw("p4", Text_Cola, -5, Text_500_g),
     MakeRaw("p5", Text_Milk, 100, Text_0_g)}

Limits == {NoLimit, [given |-> TRUE, n |-> 0], [given |-> TRUE, n |-> 2]}

\* scrape_products of a concrete scraper: every raw item goes through
\* _create_product, and an item whose construction raises is logged and
\* left out.
RECURSIVE scrape_products(_, _)
scrape_products(raw, supermarket_code) ==
    IF raw = <<>> THEN <<>>
    ELSE LET made == _create_product(Head(raw), supermarket_code)
             rest == scrape_products(Tail(raw), supermarket_code)
         IN  IF made.raised = None THEN <<made.product>> \o rest ELSE rest

\* products[: self.product_limit] when a limit is given
apply_limit(list, product_limit) ==
    IF product_limit.given THEN SubSeq(list, 1, Min(product_limit.n, Len(list)))
    ELSE list

\* run after start_scraping_session returned or raised (outside the try).
run_started(supermarket_code, product_limit, r) ==
    /\ start_effect(r)
    /\ IF r.raised = None
       THEN /\ pc' = "run_scrape"
            /\ last_call' = NoCall
            /\ run' = [NoRun EXCEPT !.active = TRUE,
                                    !.session_id = r.session_id,
                                    !.supermarket_code = supermarket_code,
                                    !.product_limit = product_limit]
       ELSE /\ pc' = "returned"
            /\ last_call' = [op |-> "run", value |-> 0, raised |-> r.raised]
            /\ UNCHANGED run

\* run, line 54: start_scraping_session, outside the try block.
RunStart(supermarket_code, product_limit) ==
    /\ pc = "idle"
    /\ calls < MaxRuns
    /\ Len(scraping_sessions) < MaxSessions
    /\ calls' = calls + 1
    /\ run_started(supermarket_code, product_limit,
                   start_scraping_session(supermarket_code))
    /\ UNCHANGED <<connected, now, batchVars, latest, persisted, connects>>
    /\ UNCHANGED evaluated

\* run, lines 75-76: `if products:` save_products_batch(products).
run_save(list, up) ==
    IF list = <<>>
    THEN /\ up
         /\ pc' = "run_end"
         /\ UNCHANGED <<connected, storeVars, batchVars, connects>>
    ELSE save_products_batch_begin(list, up)

\* run, lines 66-76: scrape_products, the limit, and the call of
\* save_products_batch when the list is not empty.  `boom`: scrape_products
\* raises (a collaborator failure that the scraper does not catch).
RunScrape(raw, boom, up) ==
    /\ pc = "run_scrape"
    /\ connected => up
    /\ IF boom
       THEN /\ raw = <<>>
            /\ up
            /\ pc' = "run_except"
            /\ run' = [run EXCEPT !.scrape_raised = TRUE, !.exc = "boom"]
            /\ UNCHANGED <<connected, storeVars, batchVars, connects>>
       ELSE /\ run' = [run EXCEPT !.raw = raw]
            /\ run_save(apply_limit(scrape_products(raw, run.supermarket_code),
                                    run.product_limit), up)
    /\ UNCHANGED <<now, scraping_sessions, last_call, latest, persisted, calls>>
    /\ UNCHANGED evaluated

\* What run does with the outcome of end_scraping_session(..., 'completed'):
\* an Error is caught by its except branch.
run_completed(up, r) ==
    /\ end_effect(r, up)
    /\ run' = [run EXCEPT
                  !.ends = Append(@, [status |-> "completed", outcome |-> r.outcome]),
                  !.exc = IF r.outcome = "raised" THEN "Error" ELSE @]
    /\ IF r.outcome = "raised"
       THEN /\ pc' = "run_except"
            /\ UNCHANGED last_call
       ELSE /\ pc' = "returned"
            /\ last_call' = [op |-> "run", value |-> run.products_saved,
                             raised |-> None]

\* run, line 79: end_scraping_session(session_id, products_saved, 'completed').
RunEnd(up, fault) ==
    /\ pc = "run_end"
    /\ connected => up
    /\ ~_ensure_connection(up) => ~fault
    /\ run_completed(up, end_scraping_session(run.session_id, run.products_saved,
                                              "completed", None, up, fault))
    /\ UNCHANGED <<now, batchVars, histVars>>
    /\ UNCHANGED evaluated

\* What run does with the outcome of end_scraping_session(..., 'failed', str(e)):
\* `raise`; an Error raised by this end call replaces the exception.
run_failed(up, r) ==
    /\ end_effect(r, up)
    /\ run' = [run EXCEPT
                  !.ends = Append(@, [status |-> "failed", outcome |-> r.outcome])]
    /\ pc' = "returned"
    /\ last_call' = [op |-> "run", value |-> 0,
                     raised |-> IF r.outcome = "raised" THEN "Error" ELSE run.exc]

\* run, lines 82-85: end_scraping_session(session_id, products_saved,
\* 'failed', str(e)) and raise.
RunExcept(up, fault) ==
    /\ pc = "run_except"
    /\ connected => up
    /\ ~_ensure_connection(up) => ~fault
    /\ run_failed(up, end_scraping_session(run.session_id, run.products_saved,
                                           "failed", run.exc, up, fault))
    /\ UNCHANGED <<now, batchVars, histVars>>
    /\ UNCHANGED evaluated

(***************************************************************************)
(* The Plus offers adapter: UnitExtractor and ProductBuilder.              *)
(***************************************************************************)
\* `keyword in normalized`
Contains(text, keyword) ==
    \E i \in 1..(Len(text) - Len(keyword) + 1) :
        SubSeq(text, i, i + Len(keyword) - 1) = keyword

\* The loop of UnitExtractor.parse_type over unit_mapping, in the order of
\* the dict.
parse_type_of(normalized) ==
    IF Contains(normalized, <<"k", "g">>)
       \/ Contains(normalized, <<"k", "i", "l", "o">>) THEN "kg"
    ELSE IF Contains(normalized, <<"l">>)
            \/ Contains(normalized, <<"l", "i", "t", "e", "r">>) THEN "liter"
    ELSE IF Contains(normalized, <<"g">>)
            \/ Contains(normalized, <<"g", "r", "a", "m">>) THEN "gram"
    ELSE IF Contains(normalized, <<"m", "l">>) THEN "ml"
    ELSE IF Contains(normalized, <<"s", "t">>)
            \/ Contains(normalized, <<"s", "t", "u", "k">>)
            \/ Contains(normalized, <<"p", "i", "e", "c", "e">>) THEN "piece"
    ELSE IF Contains(normalized, <<"m">>)
            \/ Contains(normalized, <<"m", "e", "t", "e", "r">>) THEN "meter"
    ELSE "piece"

\* UnitExtractor.parse_type(unit_text)
parse_type(unit_text) == parse_type_of(strip(lower(unit_text)))

\* text.replace(prefix, '').strip(), before the strip
RECURSIVE _remove_prefix(_, _)
_remove_prefix(text, prefix) ==
    IF text = <<>> THEN <<>>
    ELSE IF Len(text) >= Len(prefix) /\ SubSeq(text, 1, Len(prefix)) = prefix
    THEN _remove_prefix(SubSeq(text, Len(prefix) + 1, Len(text)), prefix)
    ELSE <<Head(text)>> \o _remove_prefix(Tail(text), prefix)

\* The text of the match of r'(\d+(?:\.\d+)?)' that starts at i and whose
\* digits end at intEnd.
number_text(text, i, intEnd) ==
    IF /\ intEnd + 2 <= Len(text)
       /\ text[intEnd + 1] = "."
       /\ IsDigit(text[intEnd + 2])
    THEN SubSeq(text, i, SpanEnd(text, intEnd + 2, "\\d"))
    ELSE SubSeq(text, i, intEnd)

\* UnitExtractor._extract_first_number(text) or '1'
_extract_first_number(text, starts) ==
    IF starts = {} THEN <<"1">>
    ELSE number_text(text, CHOOSE i \in starts : \A j \in starts : i <= j,
                     SpanEnd(text, CHOOSE i \in starts : \A j \in starts : i <= j,
                             "\\d"))

\* UnitExtractor.extract_amount(unit_text): 'Per 930 g' -> '930'
extract_amount(unit_text) ==
    IF unit_text = <<>> THEN <<"1">>
    ELSE _extract_first_number(
            strip(_remove_prefix(unit_text, <<"P", "e", "r", " ">>)),
            {i \in 1..Len(strip(_remove_prefix(unit_text, <<"P", "e", "r", " ">>))) :
                IsDigit(strip(_remove_prefix(unit_text, <<"P", "e", "r", " ">>))[i])})

\* ProductBuilder.build_from_product_list_item after the calculator returned
\* or raised: `return None` (no Product) or Product(...).
product_list_item(plp_data, promotion_price, unit_amount, unit) ==
    IF unit.raised = None /\ unit.price_per_unit <= 0
    THEN [raised |-> None, product |-> NoProduct]
    ELSE make_product(
            [product_id |-> plp_data.SKU, name |-> plp_data.Name,
             category_name |-> <<"O", "f", "f", "e", "r", "s">>,
             price |-> promotion_price, unit_amount |-> unit_amount,
             price_per_unit |-> IF unit.raised # None THEN promotion_price
                                ELSE unit.price_per_unit,
             unit_type |-> parse_type(plp_data.Product_Subtitle),
             supermarket_code |-> "plus", search_tags |-> plp_data.Name,
             original_price |-> 0, discount_type |-> "Promotion",
             discount_start_date |-> NULL, discount_end_date |-> NULL,
             image_url |-> ""])

\* ProductBuilder.build_from_product_list_item(product_data, promotion_price,
\* promotion_period): no Product for invalid data or a non-positive price.
build_from_product_list_item(plp_data, promotion_price) ==
    IF plp_data.SKU = "" \/ plp_data.Name = <<>> \/ promotion_price <= 0
    THEN [raised |-> None, product |-> NoProduct]
    ELSE product_list_item(plp_data, promotion_price,
                           extract_amount(plp_data.Product_Subtitle),
                           calculate_price_per_unit(
                               promotion_price,
                               extract_amount(plp_data.Product_Subtitle)))

\* Product_Subtitle texts of the Plus API: none, a weight in grams, a piece,
\* a volume in ml, a length.
Subtitles ==
    {<<>>, <<"P", "e", "r", " ", "9", "3", "0", " ", "g">>,
     <<"P", "e", "r", " ", "s", "t", "u", "k">>,
     <<"P", "e", "r", " ", "7", "5", " ", "m", "l">>,
     <<"P", "e", "r", " ", "2", " ", "m">>}

(***************************************************************************)
(* The Dekamarkt adapter: the incremental filter of scrape_products.       *)
(***************************************************************************)
\* What _fetch_sitemap returns: items with a <lastmod> at each time of the
\* clock and one without <lastmod>.
sitemap_items ==
    <<[product_id |-> "1", last_modified |-> 1],
      [product_id |-> "2", last_modified |-> 2],
      [product_id |-> "3", last_modified |-> 3],
      [product_id |-> "4", last_modified |-> NULL]>>

\* A filter that keeps the items modified at the time of the last scrape too.
updated_since_inclusive(items, last_scrape) ==
    SelectSeq(items, LAMBDA p :
        p.last_modified # NULL /\ p.last_modified >= last_scrape)

\* [p for p in sitemap_items if p["last_modified"] and
\*  p["last_modified"] > last_scrape]
updated_since(items, last_scrape) ==
    SelectSeq(items, LAMBDA p :
        p.last_modified # NULL /\ p.last_modified > last_scrape)

\* Steps 2 and 3 of DekamarktScraper.scrape_products: the items that step 4
\* iterates, given what get_last_scrape_date returned.
items_to_scrape(items, last_scrape, product_limit) ==
    IF items = <<>> THEN <<>>
    ELSE IF last_scrape = NULL THEN apply_limit(items, product_limit)
    ELSE apply_limit(updated_since(items, last_scrape), product_limit)

(***************************************************************************)
(* The product factory and the unit canonicalizer, called on their own.    *)
(***************************************************************************)
callVars == <<connected, now, scraping_sessions, storeVars, pc, last_call,
              batchVars, histVars, run>>

\* Unit texts: a weight, a zero weight, pieces, a decimal volume, a decimal
\* weight without space, a token that is not in the table, no number at all,
\* a multipack whose first token is not in the table, and a negative weight.
UnitTexts ==
    {Text_500_g, Text_0_g, Text_1_st, <<"3", " ", "s", "t">>,
     <<"1", ".", "5", " ", "l">>, <<"0", ".", "5", "k", "g">>, <<"2", " ", "m">>,
     <<"x">>, <<"2", " ", "x", " ", "5", "0", "0", " ", "g">>,
     <<"-", "5", " ", "g">>}

\* Prices in cents: negative, absent or zero, one cent, and ordinary ones.
Prices == {0 - 5, 0, 1, 100, 200, 300}

\* original_price in cents: absent, below, equal to and above a price of 100.
OriginalPrices == {NULL, 50, 100, 150}

\* The raw items a scraper may hand to _create_product.
RawItems ==
    {[MakeRaw(product_id, name, price, unit_amount)
         EXCEPT !.original_price = original_price] :
        product_id \in {"", "p1"}, name \in {<<>>, <<" ">>, Text__Milk},
        price \in Prices, unit_amount \in UnitTexts,
        original_price \in OriginalPrices}

\* A scraper calls self._create_product(...).
CreateProduct(raw, supermarket_code) ==
    /\ pc = "idle"
    /\ evaluated = NoEvaluation
    /\ evaluated' = [op |-> "_create_product", raw |-> raw,
                     supermarket_code |-> supermarket_code,
                     value |-> _create_product(raw, supermarket_code)]
    /\ UNCHANGED callVars

\* PriceCalculator.calculate_price_per_unit(price, unit_amount) is called.
CalculatePricePerUnit(price, unit_amount) ==
    /\ pc = "idle"
    /\ evaluated = NoEvaluation
    /\ evaluated' = [op |-> "calculate_price_per_unit", price |-> price,
                     unit_amount |-> unit_amount,
                     value |-> calculate_price_per_unit(price, unit_amount)]
    /\ UNCHANGED callVars

\* PromotionDetailsProcessor calls build_from_product_list_item(...).
BuildFromProductListItem(plp_data, promotion_price) ==
    /\ pc = "idle"
    /\ evaluated = NoEvaluation
    /\ evaluated' = [op |-> "build_from_product_list_item", plp_data |-> plp_data,
                     promotion_price |-> promotion_price,
                     value |-> build_from_product_list_item(plp_data, promotion_price)]
    /\ UNCHANGED callVars

\* DekamarktScraper.scrape_products() of the scraper of supermarket_code,
\* up to the list of items it goes through.
ScrapeProducts(supermarket_code, product_limit) ==
    /\ pc = "idle"
    /\ evaluated = NoEvaluation
    /\ evaluated' = [op |-> "scrape_products",
                     supermarket_code |-> supermarket_code,
                     product_limit |-> product_limit,
                     last_scrape |-> get_last_scrape_date(supermarket_code),
                     value |-> items_to_scrape(sitemap_items,
                                               get_last_scrape_date(supermarket_code),
                                               product_limit)]
    /\ UNCHANGED callVars

\* PriceCalculator.generate_search_tags(name, category, brand) is called; the
\* value is the list of tags that ', ' joins.
GenerateSearchTags(name, category, brand) ==
    /\ pc = "idle"
    /\ evaluated = NoEvaluation
    /\ \E l \in unique_tags(generate_search_tags(name, category, brand)) :
          evaluated' = [op |-> "generate_search_tags", name |-> name,
                        category |-> category, brand |-> brand, value |-> l]
    /\ UNCHANGED callVars

vars == <<connected, now, scraping_sessions, categories, products, price_history,
          tx, pc, batch, offset, saved_count, last_call, chunk_log, latest,
          persisted, calls, connects, run, evaluated>>

(***************************************************************************)
(* The persistence engine driven by its callers.                           *)
(***************************************************************************)
NextSave ==
    \/ \E list \in Lists(ProductUniverse, MaxBatch), up \in BOOLEAN :
          SaveBatchCall(list, up)
    \/ \E up \in BOOLEAN, fault \in Faults :
          \E order \in Orders(unique_categories(chunk_at(batch, offset))) :
              SaveChunk(up, order, fault)
    \/ SaveBatchReturn
    \/ \E p \in ProductUniverse, up \in BOOLEAN, fault \in Faults :
          SaveProduct(p, up, fault)
    \/ Return
    \/ DropConnection

SpecSave == Init /\ [][NextSave]_vars

(***************************************************************************)
(* The session tracker driven by its callers.                              *)
(***************************************************************************)
NextSession ==
    \/ \E code \in Codes : StartSession(code)
    \/ \E sid \in 1..MaxSessions, n \in 0..MaxCount, st \in Statuses,
          up \in BOOLEAN, fault \in BOOLEAN :
          EndSession(sid, n, st, message_of(st), up, fault)
    \/ Return
    \/ DropConnection
    \/ Tick

SpecSession == Init /\ [][NextSession]_vars

(***************************************************************************)
(* Scraper runs.                                                           *)
(***************************************************************************)
NextRun ==
    \/ \E code \in Codes, limit \in Limits : RunStart(code, limit)
    \/ \E raw \in Lists(RawUniverse, MaxBatch), boom \in BOOLEAN, up \in BOOLEAN :
          RunScrape(raw, boom, up)
    \/ \E up \in BOOLEAN, fault \in Faults :
          \E order \in Orders(unique_categories(chunk_at(batch, offset))) :
              SaveChunk(up, order, fault)
    \/ SaveBatchReturn
    \/ \E up \in BOOLEAN, fault \in BOOLEAN : RunEnd(up, fault)
    \/ \E up \in BOOLEAN, fault \in BOOLEAN : RunExcept(up, fault)
    \/ Return
    \/ DropConnection
    \/ Tick

SpecRun == Init /\ [][NextRun]_vars

NextFactory ==
    \/ \E raw \in RawItems, supermarket_code \in {"AH", "zz"} :
          CreateProduct(raw, supermarket_code)
    \/ \E price \in Prices, unit_amount \in UnitTexts :
          CalculatePricePerUnit(price, unit_amount)
    \/ \E SKU \in {"", "p1"}, Name \in {<<>>, Text_Milk},
          Product_Subtitle \in Subtitles, promotion_price \in Prices :
          BuildFromProductListItem([SKU |-> SKU, Name |-> Name,
                                    Product_Subtitle |-> Product_Subtitle],
                                   promotion_price)
    \/ \E name \in {Text_Milk, Text_Cola, <<"D", "e", " ", "m", "i", "l", "k">>},
          category \in {Text_A, Text_B_c, Text_Milk, <<"M", "e", "t", " ", "i", "j", "s">>},
          brand \in {<<>>, <<"T", "h", "e">>, <<"A", "H", "_", "1">>} :
          GenerateSearchTags(name, category, brand)

SpecFactory == Init /\ [][NextFactory]_vars

(***************************************************************************)
(* The session tracker, and then one Dekamarkt scrape.                     *)
(***************************************************************************)
NextDekamarkt ==
    \/ evaluated = NoEvaluation /\ NextSession
    \/ \E code \in {"AH", "DIRK"}, limit \in {NoLimit, [given |-> TRUE, n |-> 1]} :
          ScrapeProducts(code, limit)

SpecDekamarkt == Init /\ [][NextDekamarkt]_vars

(***************************************************************************)
(* Properties of the session tracker.                                      *)
(***************************************************************************)
\* C1: a session row is created in status running and only moves to completed
\* or failed; once it is completed or failed, no later end() call changes its
\* status, completed_at, products_scraped or error_message.
C1_TerminalSessionsFrozen ==
    [][/\ \A i \in (Len(scraping_sessions) + 1)..Len(scraping_sessions') :
             scraping_sessions'[i].status = "running"
       /\ \A i \in 1..Len(scraping_sessions) :
             /\ scraping_sessions'[i].status # scraping_sessions[i].status
                   => /\ scraping_sessions[i].status = "running"
                      /\ scraping_sessions'[i].status \in {"completed", "failed"}
             /\ scraping_sessions[i].status \in {"completed", "failed"}
                   => scraping_sessions'[i] = scraping_sessions[i]]_vars

\* C3: in every state a session's completed_at is null exactly when its
\* status is running.
C3_CompletedAtNullIffRunning ==
    \A i \in 1..Len(scraping_sessions) :
        (scraping_sessions[i].completed_at = NULL)
            <=> (scraping_sessions[i].status = "running")

\* C3 witness: an end() has been applied to one session while another one is
\* still running.
C3_Witness ==
    \E i, j \in 1..Len(scraping_sessions) :
        /\ scraping_sessions[i].status = "running"
        /\ scraping_sessions[i].completed_at = NULL
        /\ scraping_sessions[j].status \in {"completed", "failed"}
        /\ scraping_sessions[j].completed_at # NULL

\* The completion times of the completed sessions of a source ("" = every
\* source), read off the rows through the code each row's supermarket has.
C4_CompletedTimes(code) ==
    {scraping_sessions[i].completed_at :
        i \in {k \in 1..Len(scraping_sessions) :
                  /\ scraping_sessions[k].status = "completed"
                  /\ \/ code = ""
                     \/ LOWER(supermarkets[scraping_sessions[k].supermarket_id].code)
                            = LOWER(code)}}

\* C4: last_completed(code) is the maximum completed_at over the completed
\* sessions of that source and null when there is none; without a source it
\* is the maximum over the completed sessions of all sources.  (On a dead
\* connection the query fails and the function returns None.)
C4_LastCompleted ==
    \A code \in Codes \cup {""} :
        connected =>
            get_last_scrape_date(code) =
                IF C4_CompletedTimes(code) = {} THEN NULL
                ELSE SetMax(C4_CompletedTimes(code))

\* C4 witness: one source has a completed session and a later failed one,
\* another source has none completed, and the answers differ accordingly.
C4_Witness ==
    /\ connected
    /\ Len(scraping_sessions) = 2
    /\ scraping_sessions[1].supermarket_id = 1
    /\ scraping_sessions[1].status = "completed"
    /\ scraping_sessions[2].supermarket_id = 1
    /\ scraping_sessions[2].status = "failed"
    /\ scraping_sessions[2].completed_at > scraping_sessions[1].completed_at
    /\ get_last_scrape_date("ah") = scraping_sessions[1].completed_at
    /\ get_last_scrape_date("DIRK") = NULL
    /\ get_last_scrape_date("") = scraping_sessions[1].completed_at

(***************************************************************************)
(* Properties of the persistence engine.                                   *)
(***************************************************************************)
\* The stored row i carries the fields of Product p.  The category of a row
\* is the category row it points to, which is identified by slug and
\* supermarket.
C5_RowCarries(i, p) ==
    /\ products[i].name = p.name
    /\ products[i].category_id \in 1..Len(categories)
    /\ categories[products[i].category_id].slug = _create_slug(p.category_name)
    /\ categories[products[i].category_id].supermarket_id
           = products[i].supermarket_id
    /\ products[i].price = p.price
    /\ products[i].unit_amount = p.unit_amount
    /\ products[i].price_per_unit = p.price_per_unit
    /\ products[i].unit_type = p.unit_type
    /\ products[i].original_price = p.original_price
    /\ products[i].discount_type = p.discount_type
    /\ products[i].discount_start_date = p.discount_start_date
    /\ products[i].discount_end_date = p.discount_end_date
    /\ products[i].image_url = p.image_url
    /\ products[i].search_tags = p.search_tags

\* C5: after any sequence of save_batch and save_product calls the products
\* table holds at most one row per (product_id, supermarket), and that row
\* carries the fields of the Product persisted last under that key.
C5_OneRowLatestFields ==
    /\ \A a, b \in 1..Len(products) :
          (/\ products[a].supermarket_id # NULL
           /\ products[a].product_id = products[b].product_id
           /\ products[a].supermarket_id = products[b].supermarket_id) => a = b
    /\ \A k \in ProductKeys :
          latest[k] # NoProduct =>
              \E i \in 1..Len(products) :
                  /\ products[i].product_id = k[1]
                  /\ products[i].supermarket_id = k[2]
                  /\ C5_RowCarries(i, latest[k])

\* C5 witness: one batch saved two Products of the same key with different
\* prices, and the single row shows the later price.
C5_Witness ==
    /\ pc = "saved"
    /\ Len(batch) = 2
    /\ batch[1].product_id = batch[2].product_id
    /\ batch[1].price = 100 /\ batch[2].price = 120
    /\ saved_count = 2
    /\ Len(products) = 1
    /\ products[1].price = 120

\* C6: save_batch appends exactly one price-history row for every item it
\* upserts and never changes or removes a row that is there.
C6_HistoryRowPerUpsert ==
    [][pc = "saving" =>
          /\ Len(price_history') = Len(price_history) + (persisted' - persisted)
          /\ SubSeq(price_history', 1, Len(price_history)) = price_history]_vars

RECURSIVE C7_Rows(_)
\* The rows committed by the chunks of a log.
C7_Rows(log) == IF log = <<>> THEN 0 ELSE Head(log).rows + C7_Rows(Tail(log))

C8_Storable(chunk) ==
    Len(SelectSeq(chunk, LAMBDA p : _get_supermarket_id(p.supermarket_code) # NULL))

RECURSIVE C8_Count(_, _)
\* What the chunks k..last that did not fail stored, had each stored all it can.
C8_Count(log, k) ==
    IF k > Len(log) THEN 0
    ELSE (IF log[k].failed THEN 0
          ELSE C8_Storable(chunk_at(batch, (k - 1) * batch_size)))
         + C8_Count(log, k + 1)

\* C8: a storage failure in one chunk does not stop the call: every chunk of
\* the list is attempted, a chunk that does not fail is persisted in full, and
\* the count returned misses only the items of the chunks that failed.
C8_LaterChunksSaved ==
    (pc = "saved" /\ chunk_log # <<>>) =>
        /\ (Len(chunk_log) - 1) * batch_size < Len(batch)
        /\ Len(chunk_log) * batch_size >= Len(batch)
        /\ \A k \in 1..Len(chunk_log) :
              ~chunk_log[k].failed =>
                  chunk_log[k].rows = C8_Storable(chunk_at(batch, (k - 1) * batch_size))
        /\ saved_count = C8_Count(chunk_log, 1)

\* C8 witness: the first chunk failed, the second was saved and counted.
C8_Witness ==
    /\ pc = "saved"
    /\ Len(batch) = 3
    /\ Len(chunk_log) = 2
    /\ chunk_log[1].failed
    /\ ~chunk_log[2].failed
    /\ chunk_log[2].rows = 1
    /\ saved_count = 1
    /\ Len(products) = 1

\* C9: when a chunk fails, none of its writes is persisted, at the failure
\* or by a later commit (nothing of it stays in the open transaction), and the
\* rows committed before are unchanged.
C9_FailedChunkLeavesNothing ==
    [][(/\ pc = "saving"
        /\ Len(chunk_log') = Len(chunk_log) + 1
        /\ chunk_log'[Len(chunk_log')].failed) =>
          /\ categories' = categories
          /\ products' = products
          /\ price_history' = price_history
          /\ tx' = [categories |-> categories', products |-> products',
                    price_history |-> price_history']]_vars

\* C9 witness: the first chunk was committed, the second one, which needed a
\* category of its own, failed, and neither that category nor its product is
\* in the tables or in the open transaction.
C9_Witness ==
    /\ pc = "saved"
    /\ Len(batch) = 3
    /\ Len(chunk_log) = 2
    /\ ~chunk_log[1].failed /\ chunk_log[1].rows = 2
    /\ chunk_log[2].failed
    /\ _get_supermarket_id(batch[3].supermarket_code) # NULL
    /\ Len(products) = 2
    /\ \A i \in 1..Len(tx.categories) :
          tx.categories[i].slug # _create_slug(batch[3].category_name)
    /\ tx = committed

(***************************************************************************)
(* Properties of a scraper run.                                            *)
(***************************************************************************)
\* The end() calls of the run that were applied to the session row.
C2_Applied == SelectSeq(run.ends, LAMBDA e : e.outcome = "applied")

\* C2: every run finalizes the session it created exactly once: completed
\* when scrape_products and save_batch raised nothing, failed with the
\* exception text otherwise; no run leaves the session running and none
\* applies end twice.
C2_RunFinalizesOnce ==
    (pc = "returned" /\ run.active) =>
        /\ scraping_sessions[run.session_id].status # "running"
        /\ ~run.scrape_raised
              => scraping_sessions[run.session_id].status = "completed"
        /\ run.scrape_raised
              => /\ scraping_sessions[run.session_id].status = "failed"
                 /\ scraping_sessions[run.session_id].error_message = "boom"
        /\ Len(C2_Applied) = 1

\* The raw items of the run whose price is not positive.
C10_Unpriced == {k \in 1..Len(run.raw) : run.raw[k].price <= 0}

\* The run met nothing else that loses items: every other raw item is a valid
\* one, the limit does not cut the list, every chunk was stored and run
\* returned.
C10_NothingElseLost ==
    /\ pc = "returned" /\ run.active /\ last_call.raised = None
    /\ \A k \in 1..Len(run.raw) :
          k \notin C10_Unpriced
              => _create_product(run.raw[k], run.supermarket_code).raised = None
    /\ ~run.product_limit.given \/ run.product_limit.n >= Len(run.raw)
    /\ Len(chunk_log) * batch_size >= Len(run.raw) - 1
    /\ \A k \in 1..Len(chunk_log) : ~chunk_log[k].failed

\* C10: when N raw items are processed and exactly one has price <= 0, no
\* Product is produced for it, the other N-1 are persisted and the saved-count
\* reported is N-1.
C10_UnpricedItemDropped ==
    (C10_NothingElseLost /\ Cardinality(C10_Unpriced) = 1) =>
        /\ \A k \in C10_Unpriced : \A i \in 1..Len(batch) :
              batch[i].product_id # run.raw[k].product_id
        /\ \A k \in 1..Len(run.raw) :
              k \notin C10_Unpriced =>
                  \E i \in 1..Len(products) :
                      /\ products[i].product_id = run.raw[k].product_id
                      /\ products[i].price = run.raw[k].price
        /\ run.products_saved = Len(run.raw) - 1
        /\ last_call.value = Len(run.raw) - 1
        /\ scraping_sessions[run.session_id].status = "completed"
              => scraping_sessions[run.session_id].products_scraped
                     = Len(run.raw) - 1

\* C10 witness: a run over three raw items, one of them without price, that
\* stored the other two.
C10_Witness ==
    /\ C10_NothingElseLost
    /\ Len(run.raw) = 3
    /\ Cardinality(C10_Unpriced) = 1
    /\ run.products_saved = 2
    /\ Len(products) = 2

(***************************************************************************)
(* Properties of the product factory.                                      *)
(***************************************************************************)
\* The failure conditions as C11 lists them: product_id or name empty, price
\* absent or not positive, the canonicalizer reporting an invalid magnitude.
C11_Listed(raw, unit) ==
    \/ raw.product_id = ""
    \/ raw.name = <<>>
    \/ raw.price <= 0
    \/ unit.raised # None

\* The failure conditions of the code: the name is empty once trimmed, and a
\* price_per_unit that rounds to zero is refused as well.
C11_Refused(raw, unit) ==
    \/ raw.product_id = ""
    \/ strip(raw.name) = <<>>
    \/ raw.price <= 0
    \/ unit.raised # None
    \/ unit.price_per_unit <= 0

\* The factory returned a Product carrying the canonicalizer's result.
C11_Carries(value, unit) ==
    /\ value.raised = None
    /\ value.product.price_per_unit = unit.price_per_unit
    /\ value.product.unit_type = unit.unit_type

\* C11 as stated: _create_product fails whenever product_id or name is empty,
\* price is not positive or the canonicalizer reports an invalid magnitude,
\* and in every other case returns a Product with the canonicalizer's
\* price_per_unit and unit_type.
C11_FailsAsListed ==
    evaluated.op = "_create_product" =>
        IF C11_Listed(evaluated.raw,
                      calculate_price_per_unit(evaluated.raw.price,
                                               evaluated.raw.unit_amount))
        THEN evaluated.value.raised # None
        ELSE C11_Carries(evaluated.value,
                         calculate_price_per_unit(evaluated.raw.price,
                                                  evaluated.raw.unit_amount))

\* C11, amended: _create_product fails whenever product_id is empty, name is
\* empty after trimming, price is not positive, the canonicalizer raises, or
\* the canonicalizer's price_per_unit is not positive after rounding; in
\* every other case it returns a Product with the canonicalizer's
\* price_per_unit and unit_type.
C11_FailsAsValidated ==
    evaluated.op = "_create_product" =>
        IF C11_Refused(evaluated.raw,
                       calculate_price_per_unit(evaluated.raw.price,
                                                evaluated.raw.unit_amount))
        THEN evaluated.value.raised # None
        ELSE C11_Carries(evaluated.value,
                         calculate_price_per_unit(evaluated.raw.price,
                                                  evaluated.raw.unit_amount))

\* C11 witness: an item with id, name and a price of one cent for three
\* pieces is refused because its price per piece rounds to zero.
C11_Witness ==
    /\ evaluated.op = "_create_product"
    /\ evaluated.raw.product_id = "p1"
    /\ evaluated.raw.name = Text__Milk
    /\ evaluated.raw.price = 1
    /\ evaluated.raw.unit_amount = <<"3", " ", "s", "t">>
    /\ calculate_price_per_unit(1, <<"3", " ", "s", "t">>).raised = None
    /\ calculate_price_per_unit(1, <<"3", " ", "s", "t">>).price_per_unit = 0
    /\ evaluated.value.raised = "ValueError"

\* C12: every Product that is constructed has original_price absent or
\* strictly greater than price.
C12_OriginalPriceAbovePrice ==
    (evaluated.op = "_create_product" /\ evaluated.value.raised = None) =>
        \/ evaluated.value.product.original_price = NULL
        \/ evaluated.value.product.original_price > evaluated.value.product.price

(***************************************************************************)
(* Properties of the connection handling.                                  *)
(***************************************************************************)
\* An operation of the run found the connection dead and could not re-open
\* it: save_products_batch returned before its first chunk, or
\* end_scraping_session gave up.
C13_Unavailable ==
    \/ batch # <<>> /\ chunk_log = <<>>
    \/ \E k \in 1..Len(run.ends) : run.ends[k].outcome = "silent"

\* C13: when the connection is unusable during a run and the one reconnect
\* fails, the session of the run ends in status failed with the exception
\* text in error_message.
C13_UnavailableMarksFailed ==
    (pc = "returned" /\ run.active /\ C13_Unavailable) =>
        /\ scraping_sessions[run.session_id].status = "failed"
        /\ scraping_sessions[run.session_id].error_message # None

\* C14: end called on a dead connection makes exactly one reconnect attempt;
\* when it succeeds (and the UPDATE and commit raise nothing) the session is
\* finalized as requested, when it fails end returns without retrying and
\* every session row is as before.
C14_OneReconnect ==
    [][(/\ pc = "idle" /\ ~connected
        /\ last_call'.op = "end_scraping_session") =>
          /\ last_call'.connects = 1
          /\ (connected' /\ last_call'.raised = None) =>
                scraping_sessions' =
                    [scraping_sessions EXCEPT ![last_call'.session_id] =
                        [@ EXCEPT !.completed_at = now,
                                  !.products_scraped = last_call'.products_count,
                                  !.status = last_call'.status,
                                  !.error_message = last_call'.error_message]]
          /\ ~connected' =>
                /\ scraping_sessions' = scraping_sessions
                /\ last_call'.raised = None
                /\ last_call'.value = NULL]_vars

\* C14 witness: an end('failed') that found the connection dead and the
\* server back has finalized a running session.
C14_Witness ==
    /\ pc = "returned"
    /\ last_call.op = "end_scraping_session"
    /\ last_call.connects = 1
    /\ connected
    /\ last_call.status = "failed"
    /\ scraping_sessions[last_call.session_id].status = "failed"
    /\ scraping_sessions[last_call.session_id].error_message = "boom"

C16_StartCreatesOneRunningRow ==
    [][(/\ pc = "idle" /\ connected
        /\ last_call'.op = "start_scraping_session") =>
          IF _get_supermarket_id(last_call'.supermarket_code) # NULL
          THEN /\ last_call'.raised = None
               /\ last_call'.value = Len(scraping_sessions) + 1
               /\ Len(scraping_sessions') = Len(scraping_sessions) + 1
               /\ SubSeq(scraping_sessions', 1, Len(scraping_sessions))
                      = scraping_sessions
               /\ scraping_sessions'[last_call'.value].status = "running"
               /\ scraping_sessions'[last_call'.value].supermarket_id
                      = _get_supermarket_id(last_call'.supermarket_code)
          ELSE /\ last_call'.raised = "ValueError"
               /\ scraping_sessions' = scraping_sessions]_vars

\* C16 witness: after a start for a registered source, a start for the
\* unknown source zz has raised and the table still holds the one row.
C16_Witness ==
    /\ pc = "returned"
    /\ last_call.op = "start_scraping_session"
    /\ last_call.supermarket_code = "zz"
    /\ last_call.raised = "ValueError"
    /\ Len(scraping_sessions) = 1
    /\ scraping_sessions[1].status = "running"

(***************************************************************************)
(* Properties of the chunk and of the category resolver.                   *)
(***************************************************************************)
\* Two items of the chunk, both of a registered source, name categories
\* that differ as pairs and derive the same slug for the same source.
C17_Clash(chunk) ==
    \E a, b \in 1..Len(chunk) :
        /\ category_key(chunk[a]) # category_key(chunk[b])
        /\ _get_supermarket_id(chunk[a].supermarket_code) # NULL
        /\ _get_supermarket_id(chunk[a].supermarket_code)
               = _get_supermarket_id(chunk[b].supermarket_code)
        /\ _create_slug(chunk[a].category_name) = _create_slug(chunk[b].category_name)

\* The items of the chunk that can be resolved each have their product row.
C17_Upserted(chunk, tbl) ==
    \A a \in 1..Len(chunk) :
        _get_supermarket_id(chunk[a].supermarket_code) # NULL =>
            \E i \in 1..Len(tbl) :
                /\ tbl[i].product_id = chunk[a].product_id
                /\ tbl[i].supermarket_id
                       = _get_supermarket_id(chunk[a].supermarket_code)

C18_PointsTo(tbl, k, hit) ==
    \E i \in 1..Len(tbl) :
        /\ tbl[i].product_id = k[1]
        /\ tbl[i].supermarket_id = k[2]
        /\ tbl[i].category_id = hit

C19_MapHasEveryPair ==
    \A k \in 1..Len(chunk_log) :
        chunk_log[k].error \in {None, "IntegrityError"} =>
            \A pr \in {q \in unique_categories(chunk_at(batch, (k - 1) * batch_size)) :
                          _get_supermarket_id(q[2]) # NULL} :
                /\ pr \in DOMAIN chunk_log[k].category_map
                /\ chunk_log[k].category_map[pr] # NULL

\* <number><optional whitespace><unit-token>: the pattern of
\* calculate_price_per_unit matches the whole text.
C20_Form(text) ==
    LET m == match_at(text, 1)
        numLen == Len(m.digits) + (IF m.decimals > 0 THEN 1 ELSE 0)
        spEnd == SpanEnd(text, numLen + 1, "\\s")
    IN  m.ok /\ spEnd + Len(m.unit) = Len(text)

\* C20: for every positive price and every unit string of the form
\* <number><optional whitespace><unit-token>, calculate_price_per_unit returns
\* a unit_type among kg, liter and piece and a price_per_unit, rounded to 2
\* decimals, strictly greater than 0.
C20_PositivePricePerUnit ==
    (/\ evaluated.op = "calculate_price_per_unit"
     /\ evaluated.price > 0
     /\ C20_Form(lower(evaluated.unit_amount)))
        => /\ evaluated.value.raised = None
           /\ evaluated.value.unit_type \in {"kg", "liter", "piece"}
           /\ evaluated.value.price_per_unit > 0

\* The same without the zero quantities, which raise ZeroDivisionError.
C20_PositiveForNonZeroQuantity ==
    (/\ evaluated.op = "calculate_price_per_unit"
     /\ evaluated.price > 0
     /\ C20_Form(lower(evaluated.unit_amount))
     /\ evaluated.value.raised = None)
        => evaluated.value.price_per_unit > 0

\* The quantities written by the unit texts with a known token: q = num / den
\* of a token with table factor f in the family of base unit `base`.
C21_Quantities ==
    {[text |-> Text_500_g, num |-> 500, den |-> 1, f |-> 1, base |-> "gram"],
     [text |-> <<"0", ".", "5", "k", "g">>, num |-> 5, den |-> 10, f |-> 1000,
      base |-> "gram"],
     [text |-> <<"1", ".", "5", " ", "l">>, num |-> 15, den |-> 10, f |-> 1000,
      base |-> "ml"],
     [text |-> Text_1_st, num |-> 1, den |-> 1, f |-> 1, base |-> "piece"],
     [text |-> <<"3", " ", "s", "t">>, num |-> 3, den |-> 1, f |-> 1,
      base |-> "piece"]}

\* round(price / (q * f) * 1000, 2) in cents, and round(price / q, 2).
C21_Expected(price, row) ==
    IF row.base = "piece"
    THEN [raised |-> None, unit_type |-> "piece",
          price_per_unit |-> round_div(price * row.den, row.num)]
    ELSE [raised |-> None,
          unit_type |-> IF row.base = "gram" THEN "kg" ELSE "liter",
          price_per_unit |-> round_div(price * 1000 * row.den, row.num * row.f)]

\* C21: for a known unit token with quantity q > 0 and factor f,
\* calculate_price_per_unit returns round(price / (q * f) * 1000, 2) with kg
\* for the gram family and liter for the ml family, and round(price / q, 2)
\* with piece for the piece family; 500 g and 0.5 kg give the same price per
\* kg; (2.00, "500 g") gives (4.00, kg) and (3.00, "1.5 l") gives (2.00, liter).
C21_ConversionFormula ==
    evaluated.op = "calculate_price_per_unit" =>
        /\ \A row \in C21_Quantities :
               row.text = evaluated.unit_amount =>
                   evaluated.value = C21_Expected(evaluated.price, row)
        /\ evaluated.unit_amount = Text_500_g =>
               /\ evaluated.value
                    = calculate_price_per_unit(evaluated.price,
                                               <<"0", ".", "5", "k", "g">>)
               /\ evaluated.price = 200 =>
                      /\ evaluated.value.price_per_unit = 400
                      /\ evaluated.value.unit_type = "kg"
        /\ (/\ evaluated.unit_amount = <<"1", ".", "5", " ", "l">>
            /\ evaluated.price = 300) =>
               /\ evaluated.value.price_per_unit = 200
               /\ evaluated.value.unit_type = "liter"

C21_Witness ==
    /\ evaluated.op = "calculate_price_per_unit"
    /\ evaluated.price = 200
    /\ evaluated.unit_amount = Text_500_g
    /\ evaluated.value.raised = None
    /\ evaluated.value.price_per_unit = 400
    /\ evaluated.value.unit_type = "kg"

\* The first <number><unit-token> occurrence of a text: the token that
\* follows the leftmost digit run, or <<>> when there is no occurrence.
C22_FirstToken(text) ==
    LET starts == {i \in 1..Len(text) : match_at(text, i).ok}
    IN  IF starts = {} THEN <<>>
        ELSE match_at(text, CHOOSE i \in starts : \A j \in starts : i <= j).unit

\* C22: when the unit text has no <number><unit-token> match, or its first
\* matched token is not in the conversion table, calculate_price_per_unit
\* does not fail and returns (round(price, 2), piece).
C22_FallsBackToPiece ==
    (/\ evaluated.op = "calculate_price_per_unit"
     /\ \/ evaluated.unit_amount
             \in {<<"x">>, <<"2", " ", "m">>,
                  <<"2", " ", "x", " ", "5", "0", "0", " ", "g">>}
        \/ \A c \in UNIT_CONVERSIONS :
               c.token # C22_FirstToken(lower(evaluated.unit_amount)))
        => /\ evaluated.value.raised = None
           /\ evaluated.value.price_per_unit = evaluated.price
           /\ evaluated.value.unit_type = "piece"

C22_Witness ==
    /\ evaluated.op = "calculate_price_per_unit"
    /\ evaluated.unit_amount = <<"2", " ", "x", " ", "5", "0", "0", " ", "g">>
    /\ evaluated.price = 200
    /\ evaluated.value.raised = None
    /\ evaluated.value.price_per_unit = 200
    /\ evaluated.value.unit_type = "piece"

\* Unit texts that write a zero or a negative quantity of a known token.
C23_NonPositiveQuantities == {Text_0_g, <<"-", "5", " ", "g">>}

\* C23: for any positive price, calculate_price_per_unit applied to a unit
\* text whose quantity is zero or negative with a known unit token signals a
\* failure and returns no (price_per_unit, unit_type) value.
C23_NonPositiveQuantityFails ==
    (/\ evaluated.op = "calculate_price_per_unit"
     /\ evaluated.price > 0
     /\ evaluated.unit_amount \in C23_NonPositiveQuantities)
        => evaluated.value.raised # None

\* A Product that an adapter built and returns from scrape_products.
C24_Built ==
    /\ evaluated.op \in {"_create_product", "build_from_product_list_item"}
    /\ evaluated.value.raised = None
    /\ evaluated.value.product # NoProduct

\* C24: every Product handed to save_products_batch by an adapter, those of
\* the ProductBuilder of the Plus offers adapter included, has a unit_type
\* among kg, liter and piece and a price_per_unit equal to
\* calculate_price_per_unit(price, unit_amount); none has gram, ml or meter.
C24_CanonicalUnitTypes ==
    C24_Built =>
        /\ evaluated.value.product.unit_type \in {"kg", "liter", "piece"}
        /\ evaluated.value.product.price_per_unit
             = calculate_price_per_unit(evaluated.value.product.price,
                                        evaluated.value.product.unit_amount).price_per_unit

\* The completed_at times of the completed sessions of a source.
C25_CompletedTimes(code) ==
    {scraping_sessions[i].completed_at : i \in
        {j \in 1..Len(scraping_sessions) :
            /\ scraping_sessions[j].status = "completed"
            /\ scraping_sessions[j].supermarket_id = _get_supermarket_id(code)}}

\* The sitemap items modified later than time t.
C25_Later(t) ==
    SelectSeq(sitemap_items, LAMBDA p : p.last_modified # NULL /\ p.last_modified > t)

\* C25: in the Dekamarkt adapter, when a completed session exists for the
\* source, exactly the sitemap items modified later than last_completed(code)
\* are scraped (none when there are none), and when no completed session
\* exists every sitemap item is scraped.
C25_ExactlyTheUpdatedItems ==
    evaluated.op = "scrape_products" =>
        evaluated.value =
            IF C25_CompletedTimes(evaluated.supermarket_code) = {}
            THEN sitemap_items
            ELSE C25_Later(SetMax(C25_CompletedTimes(evaluated.supermarket_code)))

\* C25, amended: the same when no product limit is set and the lookup of
\* last_completed(code) succeeds; with a product limit n only the first n of
\* these items are scraped, and when the lookup fails every item (the first
\* n) is scraped.
C25_UpdatedItemsUpToLimit ==
    evaluated.op = "scrape_products" =>
        evaluated.value =
            apply_limit(
                IF ~connected \/ C25_CompletedTimes(evaluated.supermarket_code) = {}
                THEN sitemap_items
                ELSE C25_Later(SetMax(C25_CompletedTimes(evaluated.supermarket_code))),
                evaluated.product_limit)

C25_Witness ==
    /\ evaluated.op = "scrape_products"
    /\ connected
    /\ ~evaluated.product_limit.given
    /\ evaluated.last_scrape = 2
    /\ evaluated.value = <<[product_id |-> "3", last_modified |-> 3]>>

\* The lowercase word tokens of a text: the maximal runs of word characters.
C26_Tokens(text) ==
    {SubSeq(lower(text), a, b) : <<a, b>> \in
        {ab \in (1..Len(text)) \X (1..Len(text)) :
            /\ ab[1] <= ab[2]
            /\ \A k \in ab[1]..ab[2] : IsWord(lower(text)[k])
            /\ (ab[1] = 1 \/ ~IsWord(lower(text)[ab[1] - 1]))
            /\ (ab[2] = Len(text) \/ ~IsWord(lower(text)[ab[2] + 1]))}}

\* C26: generate_search_tags(name, category, brand) renders exactly the set of
\* lowercase word tokens of name, category and brand that have at least 3
\* characters and are not stop words: each such token occurs exactly once and
\* no other token occurs, in any order.
C26_ExactlyTheTags ==
    evaluated.op = "generate_search_tags" =>
        /\ \A a, b \in 1..Len(evaluated.value) :
               evaluated.value[a] = evaluated.value[b] => a = b
        /\ {evaluated.value[k] : k \in 1..Len(evaluated.value)}
             = {w \in C26_Tokens(evaluated.name) \cup C26_Tokens(evaluated.category)
                      \cup C26_Tokens(evaluated.brand) :
                   Len(w) >= 3 /\ w \notin stop_words}
        /\ (/\ evaluated.name = <<"D", "e", " ", "m", "i", "l", "k">>
            /\ evaluated.category = Text_Milk
            /\ evaluated.brand = <<"T", "h", "e">>)
               => evaluated.value = <<<<"m", "i", "l", "k">>>>

C26_Witness ==
    /\ evaluated.op = "generate_search_tags"
    /\ evaluated.name = Text_Cola
    /\ evaluated.category = <<"M", "e", "t", " ", "i", "j", "s">>
    /\ evaluated.brand = <<"A", "H", "_", "1">>
    /\ evaluated.value = <<<<"i", "j", "s">>, <<"a", "h", "_", "1">>,
                           <<"c", "o", "l", "a">>>>

\* The chunks 1..k of the log, one after the other.
RECURSIVE C27_Chunks(_)
C27_Chunks(k) ==
    IF k = 0 THEN <<>>
    ELSE C27_Chunks(k - 1) \o chunk_at(batch, chunk_log[k].i)

\* C27: save_products_batch partitions its input, in order, into consecutive
\* chunks of at most batch_size items; every item belongs to exactly one
\* chunk; each chunk is committed in its own transaction (a chunk starts with
\* nothing pending on the connection); an empty input performs no storage
\* operation and returns 0.
C27_ChunksPartitionTheBatch ==
    /\ \A k \in 1..Len(chunk_log) :
           /\ chunk_log[k].i = (k - 1) * batch_size
           /\ Len(chunk_at(batch, chunk_log[k].i)) \in 1..batch_size
    /\ C27_Chunks(Len(chunk_log)) = SubSeq(batch, 1, Len(C27_Chunks(Len(chunk_log))))
    /\ (pc = "saved" /\ chunk_log # <<>>) => C27_Chunks(Len(chunk_log)) = batch
    /\ (pc = "saving" /\ connected) => tx = committed
    /\ (pc = "saved" /\ batch = <<>>) =>
           saved_count = 0 /\ connects = 0 /\ chunk_log = <<>>

\* C27 without the transaction of each chunk.
C27_PartitionOnly ==
    /\ \A k \in 1..Len(chunk_log) :
           /\ chunk_log[k].i = (k - 1) * batch_size
           /\ Len(chunk_at(batch, chunk_log[k].i)) \in 1..batch_size
    /\ C27_Chunks(Len(chunk_log)) = SubSeq(batch, 1, Len(C27_Chunks(Len(chunk_log))))
    /\ (pc = "saved" /\ chunk_log # <<>>) => C27_Chunks(Len(chunk_log)) = batch
    /\ (pc = "saved" /\ batch = <<>>) =>
           saved_count = 0 /\ connects = 0 /\ chunk_log = <<>>

\* The mutable fields of a stored row are those of the Product p.
C28_Overwritten(row, p) ==
    /\ row.name = p.name /\ row.price = p.price
    /\ row.unit_amount = p.unit_amount /\ row.price_per_unit = p.price_per_unit
    /\ row.unit_type = p.unit_type /\ row.original_price = p.original_price
    /\ row.discount_type = p.discount_type
    /\ row.discount_start_date = p.discount_start_date
    /\ row.discount_end_date = p.discount_end_date
    /\ row.search_tags = p.search_tags /\ row.image_url = p.image_url

\* The natural keys of the items of the chunk that is being saved.
C28_ChunkKeys ==
    {<<chunk_at(batch, offset)[a].product_id,
       _get_supermarket_id(chunk_at(batch, offset)[a].supermarket_code)>> :
        a \in 1..Len(chunk_at(batch, offset))}

C29_LastCompleted(sessions, code) ==
    LET times == {sessions[i].completed_at : i \in
                     {j \in 1..Len(sessions) :
                         /\ sessions[j].status = "completed"
                         /\ sessions[j].supermarket_id = _get_supermarket_id(code)}}
    IN  IF times = {} THEN NULL ELSE SetMax(times)

\* C29: over any sequence of start and end calls last_completed(code) never
\* decreases; it is unchanged by start, by an end with status failed and by a
\* session of another source; end(session_id, ...) modifies only the session
\* row with that id.
C29_LastCompletedMonotone ==
    [][/\ \A code \in {"AH", "DIRK"} :
              /\ C29_LastCompleted(scraping_sessions', code)
                    >= C29_LastCompleted(scraping_sessions, code)
              /\ (\/ Len(scraping_sessions') > Len(scraping_sessions)
                  \/ /\ last_call'.op = "end_scraping_session"
                     /\ last_call'.status = "failed"
                  \/ \E i \in 1..Len(scraping_sessions) :
                        /\ scraping_sessions'[i] # scraping_sessions[i]
                        /\ scraping_sessions[i].supermarket_id
                              # _get_supermarket_id(code))
                     => C29_LastCompleted(scraping_sessions', code)
                           = C29_LastCompleted(scraping_sessions, code)
       /\ \A i \in 1..Len(scraping_sessions) :
              scraping_sessions'[i] # scraping_sessions[i] =>
                  /\ last_call'.op = "end_scraping_session"
                  /\ last_call'.session_id = i]_vars

\* A run has returned in which neither scrape_products nor
\* save_products_batch raised.
C30_RunWithoutRaise == pc = "returned" /\ run.active /\ ~run.scrape_raised

\* C30: a chunk failure or a skipped item never makes the session failed: in
\* every run where scrape_products and save_products_batch return without
\* raising, the session ends completed with products_scraped equal to the
\* count that save_products_batch returned (0 when nothing was scraped), so
\* last_completed(code) is the time of this end.
C30_SaveLossesKeepCompleted ==
    C30_RunWithoutRaise =>
        /\ scraping_sessions[run.session_id].status = "completed"
        /\ scraping_sessions[run.session_id].products_scraped = run.products_saved
        /\ run.raw = <<>> => scraping_sessions[run.session_id].products_scraped = 0
        /\ C29_LastCompleted(scraping_sessions, run.supermarket_code)
              >= scraping_sessions[run.session_id].completed_at

\* The same for the runs whose end_scraping_session(..., 'completed') was
\* applied.
C30_CompletedWhenEndApplied ==
    (/\ C30_RunWithoutRaise
     /\ run.ends # <<>>
     /\ run.ends[1].outcome = "applied")
        => /\ scraping_sessions[run.session_id].status = "completed"
           /\ scraping_sessions[run.session_id].products_scraped = run.products_saved

====
